---- MODULE Spec2Model ----
(***************************************************************************)
(* RozoIntents Soroban contract (src/stellar/contracts/rozo-intents):      *)
(* the intent lifecycle on the source chain (create_intent, refund,        *)
(* notify/complete_fill, the admin surface) and the fill side on the       *)
(* destination chain (fill_and_notify, retry_notify); and the v1 Payment   *)
(* contract (src/v1/stellar/payment): init, pay, flush and its getters.    *)
(*                                                                         *)
(* One contract instance is modelled: its instance/persistent/temporary    *)
(* storage, the balances of the tokens it touches and the ledger time.     *)
(* Every entry point is one action.  A call that returns Err or traps is   *)
(* rolled back by the host, so a failing call changes only `called` and    *)
(* `result`, the record of the last call and of what it returned.          *)
(*                                                                         *)
(* Data abstractions:                                                      *)
(*  - an Address is [kind, key]: the ScAddress discriminant and its 32     *)
(*    bytes; a BytesN<32> is an opaque 32-byte word (a number, 0 = all     *)
(*    zero, or a digest);                                                  *)
(*  - sha256 is collision free: the digest of an IntentData is the tuple   *)
(*    of the hashed fields in the order they are fed to the hasher;        *)
(*  - a Bytes buffer is [words, tail]: a run of 32-byte words followed by  *)
(*    single bytes; the i128 amount is encoded byte by byte.               *)
(***************************************************************************)
EXTENDS Integers, Sequences, FiniteSets, TLC

VARIABLES
    owner,              \* instance storage OWNER  (NoAddr: key absent)
    fee_recipient,      \* instance storage FEE_RCPT
    chain_id,           \* instance storage CHAIN_ID (0: key absent)
    protocol_fee,       \* instance storage PROTO_FE (0: key absent)
    rozo_relayer,       \* instance storage ROZO_REL (NoAddr: key absent)
    rozo_threshold,     \* instance storage ROZO_TH  (0: key absent)
    relayer_type,       \* instance storage (RELAYER, address)
    messenger_adapter,  \* instance storage (MSG_ADP, id)
    trusted_contract,   \* instance storage (TRUSTED, chain name)
    chain_name,         \* instance storage (CHAIN, chain id)
    intents,            \* persistent storage (INTENT, id): a function on the stored ids
    fill_records,       \* persistent storage (FILL, hash): a function on the stored hashes
    accumulated_fees,   \* persistent storage (FEES, token)
    outbound,           \* temporary storage OUT_MSG: Vec<OutboundMessage>
    balance,            \* the token contracts' balances, <<token, holder>> -> amount
    events,             \* env.events(): what was published, per intent id
    now,                \* env.ledger().timestamp()
    called,             \* the entry point of the last call
    result,             \* what the last call returned
    INIT,               \* Payment: instance storage "init" (FALSE: key absent)
    DEST,               \* Payment: instance storage "dest" (NoAddr: key absent)
    USDC,               \* Payment: instance storage "usdc" (NoAddr: key absent)
    published           \* Payment: env.events(), the events in order

storageVars == <<owner, fee_recipient, chain_id, protocol_fee, rozo_relayer,
                 rozo_threshold, relayer_type, messenger_adapter,
                 trusted_contract, chain_name, intents, fill_records,
                 accumulated_fees, outbound>>
configVars == <<owner, fee_recipient, chain_id, protocol_fee, rozo_relayer,
                rozo_threshold, relayer_type, messenger_adapter,
                trusted_contract, chain_name>>
paymentVars == <<INIT, DEST, USDC, published>>
vars == <<storageVars, balance, events, now, called, result, paymentVars>>

(***************************************************************************)
(* Bounds of the model.                                                    *)
(***************************************************************************)
MaxTime == 2
MaxIntents == 1
MaxFills == 2
MaxOutbound == 3
MaxPublished == 3

(***************************************************************************)
(* Addresses and 32-byte words.                                            *)
(***************************************************************************)
Acct(k) == [kind |-> "account", key |-> k]
Ctr(k) == [kind |-> "contract", key |-> k]
NoAddr == [kind |-> "none", key |-> 0]

ZERO_BYTES32 == 0

address_to_bytes32(addr) ==
    IF addr.kind = "account" THEN addr.key   \* the Ed25519 key, XDR offset 8
    ELSE addr.key                            \* the contract id, XDR offset 4

bytes32_to_address_typed(bytes, is_account) ==
    IF is_account THEN Acct(bytes) ELSE Ctr(bytes)

bytes32_to_address(bytes) == bytes32_to_address_typed(bytes, FALSE)

\* The people and contracts of the model.
OwnerAddr == Acct(1)
Alice == Acct(2)
Bob == Acct(3)
Mallory == Acct(4)
RelayerR == Acct(5)
RelayerF == Acct(6)
Adapter0 == Ctr(7)
Adapter1 == Ctr(8)
TokenS == Ctr(9)
TokenD == Ctr(10)
Receiver == Ctr(11)
FeeRcpt == Acct(12)
Self == Ctr(99)        \* env.current_contract_address()

Tokens == {TokenS, TokenD}
Holders == {OwnerAddr, Alice, Bob, Mallory, RelayerR, RelayerF, Receiver, FeeRcpt,
            Self, Ctr(5), Ctr(6)}
RelayerAddrs == {RelayerR, RelayerF, Mallory}
MessengerIds == {0, 1, 2}
ChainIds == {1500, 8453, 1}
ChainNames == {"stellar", "base"}
NoName == ""
IntentIds == 1..MaxIntents

\* Nothing published yet: per intent id, the number of intent_filled and of
\* intent_refunded events and the <<expected, received>> hashes of the
\* intent_failed events.
NoEvents == [i \in IntentIds |-> [filled |-> 0, refunded |-> 0, failed |-> <<>>]]

(***************************************************************************)
(* The token contracts (token::Client::transfer).                          *)
(***************************************************************************)
CanTransfer(bal, token, from, amount) ==
    /\ amount >= 0
    /\ <<token, from>> \in DOMAIN bal
    /\ bal[<<token, from>>] >= amount

Transfer(bal, token, from, to, amount) ==
    LET debited == [bal EXCEPT ![<<token, from>>] = @ - amount]
    IN  [debited EXCEPT ![<<token, to>>] = @ + amount]

(***************************************************************************)
(* Storage accessors (storage.rs).                                         *)
(***************************************************************************)
has_owner == owner # NoAddr

require_owner == IF has_owner THEN "Ok" ELSE "NotInitialized"

has_intent(intent_id) == intent_id \in DOMAIN intents

set_intent(store, intent_id, intent) ==
    [k \in DOMAIN store \cup {intent_id} |->
        IF k = intent_id THEN intent ELSE store[k]]

get_relayer_type(relayer) ==
    IF relayer \in DOMAIN relayer_type THEN relayer_type[relayer] ELSE "None"

get_messenger_adapter(messenger_id) ==
    IF messenger_id \in DOMAIN messenger_adapter
    THEN messenger_adapter[messenger_id] ELSE NoAddr

has_fill_record(fill_hash) == fill_hash \in DOMAIN fill_records

set_fill_record(store, fill_hash, record) ==
    [k \in DOMAIN store \cup {fill_hash} |->
        IF k = fill_hash THEN record ELSE store[k]]

get_accumulated_fees(token) ==
    IF token \in DOMAIN accumulated_fees THEN accumulated_fees[token] ELSE 0

\* Vec::push_back on the stored vector of outbound messages.
store_outbound_message(destination_chain, destination_address, payload) ==
    Append(outbound, [destination_chain |-> destination_chain,
                      destination_address |-> destination_address,
                      payload |-> payload])

(***************************************************************************)
(* The fill hash and the notification payload (lib.rs).                    *)
(***************************************************************************)
\* The fill hash as it would be if it left the destination amount out.
compute_fill_hash_without_amount(intent_data) ==
    << intent_data.intent_id, intent_data.sender, intent_data.refund_address,
       intent_data.source_token, intent_data.source_amount,
       intent_data.source_chain_id, intent_data.destination_chain_id,
       intent_data.destination_token, intent_data.receiver,
       intent_data.deadline, intent_data.created_at, intent_data.relayer >>

\* keccak256 over the XDR of the thirteen fields, taken as free of collisions.
compute_fill_hash(intent_data) ==
    << intent_data.intent_id, intent_data.sender, intent_data.refund_address,
       intent_data.source_token, intent_data.source_amount,
       intent_data.source_chain_id, intent_data.destination_chain_id,
       intent_data.destination_token, intent_data.receiver,
       intent_data.destination_amount, intent_data.deadline,
       intent_data.created_at, intent_data.relayer >>

\* i128::to_be_bytes for -2^24 <= amount < 2^24 (TLC's integers are 32 bits
\* wide): the 13 high bytes are the sign extension.
i128_to_be_bytes(amount) ==
    LET low == IF amount >= 0 THEN amount ELSE amount + 16777216
    IN  [i \in 1..16 |->
            IF i <= 13 THEN (IF amount < 0 THEN 255 ELSE 0)
            ELSE IF i = 14 THEN (low \div 65536) % 256
            ELSE IF i = 15 THEN (low \div 256) % 256
            ELSE low % 256]

\* i128::from_be_bytes as it would be if it read the bytes as unsigned.
i128_from_be_bytes_unsigned(b) ==
    b[14] * 65536 + b[15] * 256 + b[16]

\* i128::from_be_bytes, for 16 bytes whose 13 high bytes are a sign extension.
i128_from_be_bytes(b) ==
    LET low == b[14] * 65536 + b[15] * 256 + b[16]
    IN  IF b[1] >= 128 THEN low - 16777216 ELSE low

BytesLen(bytes) == 32 * Len(bytes.words) + Len(bytes.tail)

\* encode_notify_payload as it would be with the amount left-aligned in its word.
encode_notify_payload_left_aligned(intent_id, fill_hash, repayment_address, relayer, amount) ==
    LET amount_be == i128_to_be_bytes(amount)
        amount_bytes == [i \in 1..32 |-> IF i <= 16 THEN amount_be[i] ELSE 0]
    IN  [words |-> <<intent_id, fill_hash, repayment_address, relayer>>,
         tail |-> amount_bytes]

encode_notify_payload(intent_id, fill_hash, repayment_address, relayer, amount) ==
    LET amount_be == i128_to_be_bytes(amount)
        amount_bytes == [i \in 1..32 |-> IF i <= 16 THEN 0 ELSE amount_be[i - 16]]
    IN  [words |-> <<intent_id, fill_hash, repayment_address, relayer>>,
         tail |-> amount_bytes]

decode_notify_payload_ok(payload) == BytesLen(payload) = 160

\* Defined for the 160-byte buffers of the model: four words and 32 bytes.
decode_notify_payload(payload) ==
    [intent_id |-> payload.words[1],
     fill_hash |-> payload.words[2],
     repayment_address |-> payload.words[3],
     relayer |-> payload.words[4],
     amount |-> i128_from_be_bytes(SubSeq(payload.tail, 17, 32))]

(***************************************************************************)
(* initialize                                                              *)
(***************************************************************************)
\* initialize as it would be without the check of the stored owner.
initialize_result_again == "Ok"

initialize_result == IF has_owner THEN "AlreadyInitialized" ELSE "Ok"

initialize(new_owner, new_fee_recipient, new_chain_id) ==
    /\ result' = initialize_result
    /\ IF initialize_result = "Ok"
       THEN /\ owner' = new_owner
            /\ fee_recipient' = new_fee_recipient
            /\ chain_id' = new_chain_id
       ELSE UNCHANGED <<owner, fee_recipient, chain_id>>
    /\ UNCHANGED <<protocol_fee, rozo_relayer, rozo_threshold, relayer_type,
                   messenger_adapter, trusted_contract, chain_name, intents,
                   fill_records, accumulated_fees, outbound, balance, events, now>>
    /\ called' = "initialize"
    /\ UNCHANGED paymentVars

(***************************************************************************)
(* create_intent                                                           *)
(***************************************************************************)
\* create_intent as it would be if a deadline equal to the ledger time passed.
create_intent_result_deadline_now(sender, intent_id, source_token, source_amount, destination_amount, deadline) ==
    IF source_amount <= 0 \/ destination_amount <= 0 THEN "InvalidAmount"
    ELSE IF deadline < now THEN "InvalidDeadline"
    ELSE IF has_intent(intent_id) THEN "IntentAlreadyExists"
    ELSE IF ~CanTransfer(balance, source_token, sender, source_amount) THEN "HostError"
    ELSE "Ok"

\* create_intent as it would be if the id of a finished intent could be reused.
create_intent_result_reusable(sender, intent_id, source_token, source_amount, destination_amount, deadline) ==
    IF source_amount <= 0 \/ destination_amount <= 0 THEN "InvalidAmount"
    ELSE IF deadline <= now THEN "InvalidDeadline"
    ELSE IF has_intent(intent_id) /\ intents[intent_id].status = "Pending"
         THEN "IntentAlreadyExists"
    ELSE IF ~CanTransfer(balance, source_token, sender, source_amount) THEN "HostError"
    ELSE "Ok"

create_intent_result(sender, intent_id, source_token, source_amount, destination_amount, deadline) ==
    IF source_amount <= 0 \/ destination_amount <= 0 THEN "InvalidAmount"
    ELSE IF deadline <= now THEN "InvalidDeadline"
    ELSE IF has_intent(intent_id) THEN "IntentAlreadyExists"
    ELSE IF ~CanTransfer(balance, source_token, sender, source_amount) THEN "HostError"
    ELSE "Ok"

\* create_intent as it would be if it stored the intent without the transfer.
create_intent_without_escrow(sender, intent_id, source_token, source_amount, destination_chain_id, destination_token, receiver, destination_amount, deadline, refund_address, relayer) ==
    LET res == create_intent_result(sender, intent_id, source_token, source_amount,
                                    destination_amount, deadline)
        intent == [intent_id |-> intent_id,
                   sender |-> sender,
                   refund_address |-> refund_address,
                   source_token |-> source_token,
                   source_amount |-> source_amount,
                   destination_chain_id |-> destination_chain_id,
                   destination_token |-> destination_token,
                   receiver |-> receiver,
                   destination_amount |-> destination_amount,
                   deadline |-> deadline,
                   created_at |-> now,
                   status |-> "Pending",
                   relayer |-> relayer]
    IN  /\ result' = res
        /\ IF res = "Ok"
           THEN /\ balance' = balance
                /\ intents' = set_intent(intents, intent_id, intent)
           ELSE UNCHANGED <<balance, intents>>
        /\ UNCHANGED <<configVars, fill_records, accumulated_fees, outbound, events, now>>
        /\ called' = "create_intent"
        /\ UNCHANGED paymentVars

create_intent(sender, intent_id, source_token, source_amount, destination_chain_id, destination_token, receiver, destination_amount, deadline, refund_address, relayer) ==
    LET res == create_intent_result(sender, intent_id, source_token, source_amount,
                                    destination_amount, deadline)
        intent == [intent_id |-> intent_id,
                   sender |-> sender,
                   refund_address |-> refund_address,
                   source_token |-> source_token,
                   source_amount |-> source_amount,
                   destination_chain_id |-> destination_chain_id,
                   destination_token |-> destination_token,
                   receiver |-> receiver,
                   destination_amount |-> destination_amount,
                   deadline |-> deadline,
                   created_at |-> now,
                   status |-> "Pending",
                   relayer |-> relayer]
    IN  /\ result' = res
        /\ IF res = "Ok"
           THEN /\ balance' = Transfer(balance, source_token, sender, Self, source_amount)
                /\ intents' = set_intent(intents, intent_id, intent)
           ELSE UNCHANGED <<balance, intents>>
        /\ UNCHANGED <<configVars, fill_records, accumulated_fees, outbound, events, now>>
        /\ called' = "create_intent"
        /\ UNCHANGED paymentVars

(***************************************************************************)
(* refund                                                                  *)
(***************************************************************************)
\* refund as it would be without the status check.
refund_result_any_status(caller, intent_id) ==
    IF ~has_intent(intent_id) THEN "IntentNotFound"
    ELSE LET intent == intents[intent_id]
         IN  IF now < intent.deadline THEN "IntentNotExpired"
             ELSE IF caller # intent.sender /\ caller # intent.refund_address
                  THEN "NotAuthorized"
             ELSE IF ~CanTransfer(balance, intent.source_token, Self, intent.source_amount)
                  THEN "HostError"
             ELSE "Ok"

\* refund as it would be without the caller check.
refund_result_any_caller(caller, intent_id) ==
    IF ~has_intent(intent_id) THEN "IntentNotFound"
    ELSE LET intent == intents[intent_id]
         IN  IF intent.status # "Pending" THEN "InvalidStatus"
             ELSE IF now < intent.deadline THEN "IntentNotExpired"
             ELSE IF ~CanTransfer(balance, intent.source_token, Self, intent.source_amount)
                  THEN "HostError"
             ELSE "Ok"

\* refund as it would be if a Failed intent could be refunded too.
refund_result_failed_too(caller, intent_id) ==
    IF ~has_intent(intent_id) THEN "IntentNotFound"
    ELSE LET intent == intents[intent_id]
         IN  IF intent.status \notin {"Pending", "Failed"} THEN "InvalidStatus"
             ELSE IF now < intent.deadline THEN "IntentNotExpired"
             ELSE IF caller # intent.sender /\ caller # intent.refund_address
                  THEN "NotAuthorized"
             ELSE IF ~CanTransfer(balance, intent.source_token, Self, intent.source_amount)
                  THEN "HostError"
             ELSE "Ok"

refund_result(caller, intent_id) ==
    IF ~has_intent(intent_id) THEN "IntentNotFound"
    ELSE LET intent == intents[intent_id]
         IN  IF intent.status # "Pending" THEN "InvalidStatus"
             ELSE IF now < intent.deadline THEN "IntentNotExpired"
             ELSE IF caller # intent.sender /\ caller # intent.refund_address
                  THEN "NotAuthorized"
             ELSE IF ~CanTransfer(balance, intent.source_token, Self, intent.source_amount)
                  THEN "HostError"
             ELSE "Ok"

\* refund as it would be if it paid the caller.
refund_to_caller(caller, intent_id) ==
    LET res == refund_result(caller, intent_id)
    IN  /\ result' = res
        /\ IF res = "Ok"
           THEN LET intent == intents[intent_id]
                IN  /\ intents' = set_intent(intents, intent_id,
                                             [intent EXCEPT !.status = "Refunded"])
                    /\ balance' = Transfer(balance, intent.source_token, Self,
                                           caller, intent.source_amount)
                    /\ events' = [events EXCEPT ![intent_id].refunded = @ + 1]
           ELSE UNCHANGED <<intents, balance, events>>
        /\ UNCHANGED <<configVars, fill_records, accumulated_fees, outbound, now>>
        /\ called' = "refund"
        /\ UNCHANGED paymentVars

refund(caller, intent_id) ==
    LET res == refund_result(caller, intent_id)
    IN  /\ result' = res
        /\ IF res = "Ok"
           THEN LET intent == intents[intent_id]
                IN  /\ intents' = set_intent(intents, intent_id,
                                             [intent EXCEPT !.status = "Refunded"])
                    /\ balance' = Transfer(balance, intent.source_token, Self,
                                           intent.refund_address, intent.source_amount)
                    /\ events' = [events EXCEPT ![intent_id].refunded = @ + 1]
           ELSE UNCHANGED <<intents, balance, events>>
        /\ UNCHANGED <<configVars, fill_records, accumulated_fees, outbound, now>>
        /\ called' = "refund"
        /\ UNCHANGED paymentVars

(***************************************************************************)
(* notify and complete_fill                                                *)
(***************************************************************************)
\* The IntentData rebuilt from the stored intent.
\* The expected IntentData as it would be with the destination chain id in
\* the place of the contract's own.
expected_data_of_destination(intent) ==
    [intent_id |-> intent.intent_id,
     sender |-> address_to_bytes32(intent.sender),
     refund_address |-> address_to_bytes32(intent.refund_address),
     source_token |-> address_to_bytes32(intent.source_token),
     source_amount |-> intent.source_amount,
     source_chain_id |-> intent.destination_chain_id,
     destination_chain_id |-> intent.destination_chain_id,
     destination_token |-> intent.destination_token,
     receiver |-> intent.receiver,
     destination_amount |-> intent.destination_amount,
     deadline |-> intent.deadline,
     created_at |-> intent.created_at,
     relayer |-> intent.relayer]

expected_data(intent) ==
    [intent_id |-> intent.intent_id,
     sender |-> address_to_bytes32(intent.sender),
     refund_address |-> address_to_bytes32(intent.refund_address),
     source_token |-> address_to_bytes32(intent.source_token),
     source_amount |-> intent.source_amount,
     source_chain_id |-> chain_id,
     destination_chain_id |-> intent.destination_chain_id,
     destination_token |-> intent.destination_token,
     receiver |-> intent.receiver,
     destination_amount |-> intent.destination_amount,
     deadline |-> intent.deadline,
     created_at |-> intent.created_at,
     relayer |-> intent.relayer]

\* The fee rounded up instead of truncated.
\* The i128 of the code.  TLC's integers are 32 bits wide, so the model keeps
\* the amounts at AmountBits bits, two's complement: a product of an amount
\* and a fee rate leaves the range at the same place relative to I128_MAX.
AmountBits == 24
I128_MAX == 2^(AmountBits - 1) - 1

\* What an i128 operation yields in a build without overflow checks.
wrapping(x) ==
    LET r == x % 2^AmountBits
    IN  IF r > I128_MAX THEN r - 2^AmountBits ELSE r

\* The build's overflow check: x does not fit an i128.
overflows(x) == x > I128_MAX \/ x < -I128_MAX - 1

\* Rust's `/` on i128: the quotient truncated towards zero.
truncating_div(a, b) == IF a >= 0 THEN a \div b ELSE -((-a) \div b)

fee_amount_rounded_up(source_amount, fee_bps) ==
    (source_amount * fee_bps + 9999) \div 10000

fee_amount(source_amount, fee_bps) ==
    truncating_div(wrapping(source_amount * fee_bps), 10000)

\* The arithmetic of the payout leaves the i128 range: a build with overflow
\* checks panics there.
fee_overflows(source_amount, fee_bps) ==
    \/ overflows(source_amount * fee_bps)
    \/ overflows(source_amount - fee_amount(source_amount, fee_bps))

relayer_payout(source_amount, fee_bps) ==
    wrapping(source_amount - fee_amount(source_amount, fee_bps))

\* Which way complete_fill leaves: an error, one of the two recorded failures,
\* or the payout.
\* complete_fill with a hash mismatch returned as the error FillHashMismatch.
complete_fill_outcome_fatal_mismatch(intent_id, fill_hash, repayment_address, amount_paid) ==
    IF ~has_intent(intent_id) THEN "IntentNotFound"
    ELSE LET intent == intents[intent_id]
         IN  IF intent.status # "Pending" THEN "InvalidStatus"
             ELSE IF fill_hash # compute_fill_hash(expected_data(intent))
                  THEN "FillHashMismatch"
             ELSE IF amount_paid < intent.destination_amount THEN "FailedAmount"
             ELSE IF ~CanTransfer(balance, intent.source_token, Self,
                                  relayer_payout(intent.source_amount, protocol_fee))
                  THEN "HostError"
             ELSE "Filled"

\* complete_fill asking for more than the destination amount.
complete_fill_outcome_strict_amount(intent_id, fill_hash, repayment_address, amount_paid) ==
    IF ~has_intent(intent_id) THEN "IntentNotFound"
    ELSE LET intent == intents[intent_id]
         IN  IF intent.status # "Pending" THEN "InvalidStatus"
             ELSE IF fill_hash # compute_fill_hash(expected_data(intent))
                  THEN "FailedHash"
             ELSE IF amount_paid <= intent.destination_amount THEN "FailedAmount"
             ELSE IF ~CanTransfer(balance, intent.source_token, Self,
                                  relayer_payout(intent.source_amount, protocol_fee))
                  THEN "HostError"
             ELSE "Filled"

\* complete_fill without the status check.
complete_fill_outcome_any_status(intent_id, fill_hash, repayment_address, amount_paid) ==
    IF ~has_intent(intent_id) THEN "IntentNotFound"
    ELSE LET intent == intents[intent_id]
         IN  IF fill_hash # compute_fill_hash(expected_data(intent))
                  THEN "FailedHash"
             ELSE IF amount_paid < intent.destination_amount THEN "FailedAmount"
             ELSE IF ~CanTransfer(balance, intent.source_token, Self,
                                  relayer_payout(intent.source_amount, protocol_fee))
                  THEN "HostError"
             ELSE "Filled"

complete_fill_outcome(intent_id, fill_hash, repayment_address, amount_paid) ==
    IF ~has_intent(intent_id) THEN "IntentNotFound"
    ELSE LET intent == intents[intent_id]
         IN  IF intent.status # "Pending" THEN "InvalidStatus"
             ELSE IF fill_hash # compute_fill_hash(expected_data(intent))
                  THEN "FailedHash"
             ELSE IF amount_paid < intent.destination_amount THEN "FailedAmount"
             ELSE IF ~CanTransfer(balance, intent.source_token, Self,
                                  relayer_payout(intent.source_amount, protocol_fee))
                  THEN "HostError"
             ELSE "Filled"

complete_fill(intent_id, fill_hash, repayment_address, relayer, amount_paid) ==
    LET outcome == complete_fill_outcome(intent_id, fill_hash, repayment_address,
                                         amount_paid)
    IN  CASE outcome \in {"FailedHash", "FailedAmount"} ->
               /\ result' = "Ok"
               /\ intents' = set_intent(intents, intent_id,
                                        [intents[intent_id] EXCEPT !.status = "Failed"])
               /\ events' = [events EXCEPT ![intent_id].failed =
                                 Append(@, <<compute_fill_hash(
                                               expected_data(intents[intent_id])),
                                             fill_hash>>)]
               /\ UNCHANGED <<accumulated_fees, balance>>
          [] outcome = "Filled" ->
               \* Where the arithmetic overflows, the build decides: it wraps
               \* (first disjunct) or it panics (second disjunct).
               \/ LET intent == intents[intent_id]
                      fee == fee_amount(intent.source_amount, protocol_fee)
                      payout == relayer_payout(intent.source_amount, protocol_fee)
                      payout_address == bytes32_to_address(repayment_address)
                  IN  /\ result' = "Ok"
                      /\ accumulated_fees' =
                             [accumulated_fees EXCEPT ![intent.source_token] =
                                 get_accumulated_fees(intent.source_token) + fee]
                      /\ intents' = set_intent(intents, intent_id,
                                               [intent EXCEPT !.status = "Filled"])
                      /\ balance' = Transfer(balance, intent.source_token, Self,
                                             payout_address, payout)
                      /\ events' = [events EXCEPT ![intent_id].filled = @ + 1]
               \/ /\ fee_overflows(intents[intent_id].source_amount, protocol_fee)
                  /\ result' = "HostError"
                  /\ UNCHANGED <<intents, accumulated_fees, balance, events>>
          [] OTHER ->
               /\ result' = outcome
               /\ UNCHANGED <<intents, accumulated_fees, balance, events>>

\* notify without the comparison of the caller with the registered adapter.
notify_result_any_caller(caller, messenger_id, message_data) ==
    IF get_messenger_adapter(messenger_id) = NoAddr THEN "InvalidMessenger"
    ELSE IF ~decode_notify_payload_ok(message_data) THEN "InvalidPayload"
    ELSE "Ok"

\* The checks of notify that come before complete_fill.
notify_result(caller, messenger_id, message_data) ==
    IF get_messenger_adapter(messenger_id) = NoAddr THEN "InvalidMessenger"
    ELSE IF caller # get_messenger_adapter(messenger_id) THEN "NotMessenger"
    ELSE IF ~decode_notify_payload_ok(message_data) THEN "InvalidPayload"
    ELSE "Ok"

\* The source_chain_id argument of notify is not read by the code.
notify(caller, messenger_id, message_data) ==
    /\ IF notify_result(caller, messenger_id, message_data) # "Ok"
       THEN /\ result' = notify_result(caller, messenger_id, message_data)
            /\ UNCHANGED <<intents, accumulated_fees, balance, events>>
       ELSE LET m == decode_notify_payload(message_data)
            IN  complete_fill(m.intent_id, m.fill_hash, m.repayment_address,
                              m.relayer, m.amount)
    /\ UNCHANGED <<configVars, fill_records, outbound, now>>
    /\ called' = "notify"
    /\ UNCHANGED paymentVars

(***************************************************************************)
(* Admin functions.  Each starts with admin.require_auth() and             *)
(* require_owner(&env)?; `admin` is the address that signed the call.      *)
(***************************************************************************)
\* set_protocol_fee as it would be with the cap one basis point higher.
set_protocol_fee_result_off_by_one(admin, fee_bps) ==
    IF require_owner # "Ok" THEN require_owner
    ELSE IF fee_bps > 31 THEN "InvalidFee"
    ELSE "Ok"

set_protocol_fee_result(admin, fee_bps) ==
    IF require_owner # "Ok" THEN require_owner
    ELSE IF fee_bps > 30 THEN "InvalidFee"
    ELSE "Ok"

set_protocol_fee(admin, fee_bps) ==
    /\ result' = set_protocol_fee_result(admin, fee_bps)
    /\ protocol_fee' = IF result' = "Ok" THEN fee_bps ELSE protocol_fee
    /\ UNCHANGED <<owner, fee_recipient, chain_id, rozo_relayer, rozo_threshold,
                   relayer_type, messenger_adapter, trusted_contract, chain_name,
                   intents, fill_records, accumulated_fees, outbound, balance,
                   events, now>>
    /\ called' = "set_protocol_fee"
    /\ UNCHANGED paymentVars

set_fee_rcpt(admin, recipient) ==
    /\ result' = require_owner
    /\ fee_recipient' = IF result' = "Ok" THEN recipient ELSE fee_recipient
    /\ UNCHANGED <<owner, chain_id, protocol_fee, rozo_relayer, rozo_threshold,
                   relayer_type, messenger_adapter, trusted_contract, chain_name,
                   intents, fill_records, accumulated_fees, outbound, balance,
                   events, now>>
    /\ called' = "set_fee_rcpt"
    /\ UNCHANGED paymentVars

add_relayer_result(admin, relayer, new_type) ==
    IF require_owner # "Ok" THEN require_owner
    ELSE IF new_type = "None" THEN "InvalidPayload"
    ELSE "Ok"

add_relayer(admin, relayer, new_type) ==
    /\ result' = add_relayer_result(admin, relayer, new_type)
    /\ relayer_type' = IF result' = "Ok"
                       THEN [relayer_type EXCEPT ![relayer] = new_type]
                       ELSE relayer_type
    /\ UNCHANGED <<owner, fee_recipient, chain_id, protocol_fee, rozo_relayer,
                   rozo_threshold, messenger_adapter, trusted_contract, chain_name,
                   intents, fill_records, accumulated_fees, outbound, balance,
                   events, now>>
    /\ called' = "add_relayer"
    /\ UNCHANGED paymentVars

remove_relayer(admin, relayer) ==
    /\ result' = require_owner
    /\ relayer_type' = IF result' = "Ok"
                       THEN [relayer_type EXCEPT ![relayer] = "None"]
                       ELSE relayer_type
    /\ UNCHANGED <<owner, fee_recipient, chain_id, protocol_fee, rozo_relayer,
                   rozo_threshold, messenger_adapter, trusted_contract, chain_name,
                   intents, fill_records, accumulated_fees, outbound, balance,
                   events, now>>
    /\ called' = "remove_relayer"
    /\ UNCHANGED paymentVars

set_msger_adapter(admin, messenger_id, adapter) ==
    /\ result' = require_owner
    /\ messenger_adapter' = IF result' = "Ok"
                            THEN [messenger_adapter EXCEPT ![messenger_id] = adapter]
                            ELSE messenger_adapter
    /\ UNCHANGED <<owner, fee_recipient, chain_id, protocol_fee, rozo_relayer,
                   rozo_threshold, relayer_type, trusted_contract, chain_name,
                   intents, fill_records, accumulated_fees, outbound, balance,
                   events, now>>
    /\ called' = "set_msger_adapter"
    /\ UNCHANGED paymentVars

set_trusted_contract(admin, name, contract_address) ==
    /\ result' = require_owner
    /\ trusted_contract' = IF result' = "Ok"
                           THEN [trusted_contract EXCEPT ![name] = contract_address]
                           ELSE trusted_contract
    /\ UNCHANGED <<owner, fee_recipient, chain_id, protocol_fee, rozo_relayer,
                   rozo_threshold, relayer_type, messenger_adapter, chain_name,
                   intents, fill_records, accumulated_fees, outbound, balance,
                   events, now>>
    /\ called' = "set_trusted_contract"
    /\ UNCHANGED paymentVars

set_chain_id_to_name(admin, id, name) ==
    /\ result' = require_owner
    /\ chain_name' = IF result' = "Ok"
                     THEN [chain_name EXCEPT ![id] = name]
                     ELSE chain_name
    /\ UNCHANGED <<owner, fee_recipient, chain_id, protocol_fee, rozo_relayer,
                   rozo_threshold, relayer_type, messenger_adapter, trusted_contract,
                   intents, fill_records, accumulated_fees, outbound, balance,
                   events, now>>
    /\ called' = "set_chain_id_to_name"
    /\ UNCHANGED paymentVars

set_rozo_relayer(admin, relayer) ==
    /\ result' = require_owner
    /\ rozo_relayer' = IF result' = "Ok" THEN relayer ELSE rozo_relayer
    /\ UNCHANGED <<owner, fee_recipient, chain_id, protocol_fee, rozo_threshold,
                   relayer_type, messenger_adapter, trusted_contract, chain_name,
                   intents, fill_records, accumulated_fees, outbound, balance,
                   events, now>>
    /\ called' = "set_rozo_relayer"
    /\ UNCHANGED paymentVars

set_rozo_threshold(admin, threshold) ==
    /\ result' = require_owner
    /\ rozo_threshold' = IF result' = "Ok" THEN threshold ELSE rozo_threshold
    /\ UNCHANGED <<owner, fee_recipient, chain_id, protocol_fee, rozo_relayer,
                   relayer_type, messenger_adapter, trusted_contract, chain_name,
                   intents, fill_records, accumulated_fees, outbound, balance,
                   events, now>>
    /\ called' = "set_rozo_threshold"
    /\ UNCHANGED paymentVars

\* set_intent_status as it would be if a Filled or Refunded intent were final.
set_intent_status_result_final(admin, intent_id) ==
    IF require_owner # "Ok" THEN require_owner
    ELSE IF ~has_intent(intent_id) THEN "IntentNotFound"
    ELSE IF intents[intent_id].status \in {"Filled", "Refunded"} THEN "InvalidStatus"
    ELSE "Ok"

set_intent_status_result(admin, intent_id) ==
    IF require_owner # "Ok" THEN require_owner
    ELSE IF ~has_intent(intent_id) THEN "IntentNotFound"
    ELSE "Ok"

set_intent_status(admin, intent_id, status) ==
    /\ result' = set_intent_status_result(admin, intent_id)
    /\ intents' = IF result' = "Ok"
                  THEN set_intent(intents, intent_id,
                                  [intents[intent_id] EXCEPT !.status = status])
                  ELSE intents
    /\ UNCHANGED <<configVars, fill_records, accumulated_fees, outbound, balance,
                   events, now>>
    /\ called' = "set_intent_status"
    /\ UNCHANGED paymentVars

set_intent_relayer_result(admin, intent_id) ==
    IF require_owner # "Ok" THEN require_owner
    ELSE IF ~has_intent(intent_id) THEN "IntentNotFound"
    ELSE "Ok"

\* set_intent_relayer as it would be if it also restarted the intent's clock.
set_intent_relayer_restarting(admin, intent_id, relayer) ==
    /\ result' = set_intent_relayer_result(admin, intent_id)
    /\ intents' = IF result' = "Ok"
                  THEN set_intent(intents, intent_id,
                                  [intents[intent_id] EXCEPT !.relayer = relayer,
                                                             !.created_at = now])
                  ELSE intents
    /\ UNCHANGED <<configVars, fill_records, accumulated_fees, outbound, balance,
                   events, now>>
    /\ called' = "set_intent_relayer"
    /\ UNCHANGED paymentVars

set_intent_relayer(admin, intent_id, relayer) ==
    /\ result' = set_intent_relayer_result(admin, intent_id)
    /\ intents' = IF result' = "Ok"
                  THEN set_intent(intents, intent_id,
                                  [intents[intent_id] EXCEPT !.relayer = relayer])
                  ELSE intents
    /\ UNCHANGED <<configVars, fill_records, accumulated_fees, outbound, balance,
                   events, now>>
    /\ called' = "set_intent_relayer"
    /\ UNCHANGED paymentVars

\* The checks of admin_refund as they would be if only a Pending intent passed.
admin_refund_result_pending_only(admin, intent_id) ==
    IF require_owner # "Ok" THEN require_owner
    ELSE IF ~has_intent(intent_id) THEN "IntentNotFound"
    ELSE LET intent == intents[intent_id]
         IN  IF intent.status # "Pending"
             THEN "InvalidStatus"
             ELSE IF ~CanTransfer(balance, intent.source_token, Self,
                                  intent.source_amount)
                  THEN "HostError"
             ELSE "Ok"

admin_refund_result(admin, intent_id) ==
    IF require_owner # "Ok" THEN require_owner
    ELSE IF ~has_intent(intent_id) THEN "IntentNotFound"
    ELSE LET intent == intents[intent_id]
         IN  IF intent.status = "Filled" \/ intent.status = "Refunded"
             THEN "InvalidStatus"
             ELSE IF ~CanTransfer(balance, intent.source_token, Self,
                                  intent.source_amount)
                  THEN "HostError"
             ELSE "Ok"

\* admin_refund as it would be if it paid the admin who called it.
admin_refund_to_admin(admin, intent_id) ==
    /\ result' = admin_refund_result(admin, intent_id)
    /\ IF result' = "Ok"
       THEN LET intent == intents[intent_id]
            IN  /\ intents' = set_intent(intents, intent_id,
                                         [intent EXCEPT !.status = "Refunded"])
                /\ balance' = Transfer(balance, intent.source_token, Self,
                                       admin, intent.source_amount)
                /\ events' = [events EXCEPT ![intent_id].refunded = @ + 1]
       ELSE UNCHANGED <<intents, balance, events>>
    /\ UNCHANGED <<configVars, fill_records, accumulated_fees, outbound, now>>
    /\ called' = "admin_refund"
    /\ UNCHANGED paymentVars

admin_refund(admin, intent_id) ==
    /\ result' = admin_refund_result(admin, intent_id)
    /\ IF result' = "Ok"
       THEN LET intent == intents[intent_id]
            IN  /\ intents' = set_intent(intents, intent_id,
                                         [intent EXCEPT !.status = "Refunded"])
                /\ balance' = Transfer(balance, intent.source_token, Self,
                                       intent.refund_address, intent.source_amount)
                /\ events' = [events EXCEPT ![intent_id].refunded = @ + 1]
       ELSE UNCHANGED <<intents, balance, events>>
    /\ UNCHANGED <<configVars, fill_records, accumulated_fees, outbound, now>>
    /\ called' = "admin_refund"
    /\ UNCHANGED paymentVars

withdraw_fees_result(admin, token) ==
    IF require_owner # "Ok" THEN require_owner
    ELSE IF fee_recipient = NoAddr THEN "NotInitialized"
    ELSE IF get_accumulated_fees(token) <= 0 THEN "InvalidAmount"
    ELSE IF ~CanTransfer(balance, token, Self, get_accumulated_fees(token))
         THEN "HostError"
    ELSE "Ok"

\* withdraw_fees as it would be if it left the total in place.
withdraw_fees_keeping_total(admin, token) ==
    /\ result' = withdraw_fees_result(admin, token)
    /\ IF result' = "Ok"
       THEN /\ accumulated_fees' = accumulated_fees
            /\ balance' = Transfer(balance, token, Self, fee_recipient,
                                   get_accumulated_fees(token))
       ELSE UNCHANGED <<accumulated_fees, balance>>
    /\ UNCHANGED <<configVars, intents, fill_records, outbound, events, now>>
    /\ called' = "withdraw_fees"
    /\ UNCHANGED paymentVars

withdraw_fees(admin, token) ==
    /\ result' = withdraw_fees_result(admin, token)
    /\ IF result' = "Ok"
       THEN /\ accumulated_fees' = [accumulated_fees EXCEPT ![token] = 0]
            /\ balance' = Transfer(balance, token, Self, fee_recipient,
                                   get_accumulated_fees(token))
       ELSE UNCHANGED <<accumulated_fees, balance>>
    /\ UNCHANGED <<configVars, intents, fill_records, outbound, events, now>>
    /\ called' = "withdraw_fees"
    /\ UNCHANGED paymentVars

(***************************************************************************)
(* fill_and_notify and retry_notify (the destination side)                 *)
(***************************************************************************)
\* is_rozo_fallback opening one second late.
is_rozo_fallback_strictly_after(caller, created_at) ==
    IF rozo_relayer = NoAddr THEN FALSE
    ELSE IF caller # rozo_relayer THEN FALSE
    ELSE IF rozo_threshold = 0 THEN FALSE
    ELSE now > created_at + rozo_threshold

\* is_rozo_fallback as it would be without the check of a zero threshold.
is_rozo_fallback_any_threshold(caller, created_at) ==
    IF rozo_relayer = NoAddr THEN FALSE
    ELSE IF caller # rozo_relayer THEN FALSE
    ELSE now >= created_at + rozo_threshold

is_rozo_fallback(caller, created_at) ==
    IF rozo_relayer = NoAddr THEN FALSE
    ELSE IF caller # rozo_relayer THEN FALSE
    ELSE IF rozo_threshold = 0 THEN FALSE
    ELSE now >= created_at + rozo_threshold

\* The authorization step as it would be without the fallback branch.
relayer_authorized_without_fallback(relayer, intent_data) ==
    \/ intent_data.relayer = ZERO_BYTES32
    \/ intent_data.relayer = address_to_bytes32(relayer)

\* The relayer-authorization step of fill_and_notify.
relayer_authorized(relayer, intent_data) ==
    \/ intent_data.relayer = ZERO_BYTES32
    \/ intent_data.relayer = address_to_bytes32(relayer)
    \/ is_rozo_fallback(relayer, intent_data.created_at)

get_chain_name_ok(id) == id \in DOMAIN chain_name /\ chain_name[id] # NoName

get_trusted_contract_ok(name) ==
    name \in DOMAIN trusted_contract /\ trusted_contract[name] # NoName

\* The payload fill_and_notify builds.
fill_payload(relayer, intent_data, repayment_address) ==
    encode_notify_payload(intent_data.intent_id, compute_fill_hash(intent_data),
                          repayment_address, address_to_bytes32(relayer),
                          intent_data.destination_amount)

\* fill_and_notify as it would be without the relayer whitelist.
fill_and_notify_result_any_caller(relayer, intent_data, repayment_address, messenger_id) ==
    IF intent_data.destination_chain_id # chain_id THEN "WrongChain"
    ELSE IF now >= intent_data.deadline THEN "IntentExpired"
    ELSE IF ~relayer_authorized(relayer, intent_data) THEN "NotAssignedRelayer"
    ELSE IF has_fill_record(compute_fill_hash(intent_data)) THEN "AlreadyFilled"
    ELSE IF ~CanTransfer(balance, bytes32_to_address(intent_data.destination_token),
                         relayer, intent_data.destination_amount)
         THEN "HostError"
    ELSE IF get_messenger_adapter(messenger_id) = NoAddr THEN "InvalidMessenger"
    ELSE IF ~get_chain_name_ok(intent_data.source_chain_id) THEN "ChainNotFound"
    ELSE IF ~get_trusted_contract_ok(chain_name[intent_data.source_chain_id])
         THEN "UntrustedSource"
    ELSE "Ok"

\* fill_and_notify as it would be without the fill-record check.
fill_and_notify_result_unguarded(relayer, intent_data, repayment_address, messenger_id) ==
    IF get_relayer_type(relayer) = "None" THEN "NotRelayer"
    ELSE IF intent_data.destination_chain_id # chain_id THEN "WrongChain"
    ELSE IF now >= intent_data.deadline THEN "IntentExpired"
    ELSE IF ~relayer_authorized(relayer, intent_data) THEN "NotAssignedRelayer"
    ELSE IF ~CanTransfer(balance, bytes32_to_address(intent_data.destination_token),
                         relayer, intent_data.destination_amount)
         THEN "HostError"
    ELSE IF get_messenger_adapter(messenger_id) = NoAddr THEN "InvalidMessenger"
    ELSE IF ~get_chain_name_ok(intent_data.source_chain_id) THEN "ChainNotFound"
    ELSE IF ~get_trusted_contract_ok(chain_name[intent_data.source_chain_id])
         THEN "UntrustedSource"
    ELSE "Ok"

\* The checks of fill_and_notify with a fill still accepted at the deadline.
fill_and_notify_result_at_deadline(relayer, intent_data, repayment_address, messenger_id) ==
    IF get_relayer_type(relayer) = "None" THEN "NotRelayer"
    ELSE IF intent_data.destination_chain_id # chain_id THEN "WrongChain"
    ELSE IF now > intent_data.deadline THEN "IntentExpired"
    ELSE IF ~relayer_authorized(relayer, intent_data) THEN "NotAssignedRelayer"
    ELSE IF has_fill_record(compute_fill_hash(intent_data)) THEN "AlreadyFilled"
    ELSE IF ~CanTransfer(balance, bytes32_to_address(intent_data.destination_token),
                         relayer, intent_data.destination_amount)
         THEN "HostError"
    ELSE IF get_messenger_adapter(messenger_id) = NoAddr THEN "InvalidMessenger"
    ELSE IF ~get_chain_name_ok(intent_data.source_chain_id) THEN "ChainNotFound"
    ELSE IF ~get_trusted_contract_ok(chain_name[intent_data.source_chain_id])
         THEN "UntrustedSource"
    ELSE "Ok"

fill_and_notify_result(relayer, intent_data, repayment_address, messenger_id) ==
    IF get_relayer_type(relayer) = "None" THEN "NotRelayer"
    ELSE IF intent_data.destination_chain_id # chain_id THEN "WrongChain"
    ELSE IF now >= intent_data.deadline THEN "IntentExpired"
    ELSE IF ~relayer_authorized(relayer, intent_data) THEN "NotAssignedRelayer"
    ELSE IF has_fill_record(compute_fill_hash(intent_data)) THEN "AlreadyFilled"
    ELSE IF ~CanTransfer(balance, bytes32_to_address(intent_data.destination_token),
                         relayer, intent_data.destination_amount)
         THEN "HostError"
    ELSE IF get_messenger_adapter(messenger_id) = NoAddr THEN "InvalidMessenger"
    ELSE IF ~get_chain_name_ok(intent_data.source_chain_id) THEN "ChainNotFound"
    ELSE IF ~get_trusted_contract_ok(chain_name[intent_data.source_chain_id])
         THEN "UntrustedSource"
    ELSE "Ok"

\* fill_and_notify as it would be if the record and the transfer made before
\* a late error were kept.
fill_and_notify_keeping_early_writes(relayer, intent_data, repayment_address, messenger_id) ==
    /\ fill_and_notify_result(relayer, intent_data, repayment_address, messenger_id)
          \in {"Ok", "InvalidMessenger", "ChainNotFound", "UntrustedSource"}
           => Cardinality(DOMAIN fill_records) < MaxFills /\ Len(outbound) < MaxOutbound
    /\ result' = fill_and_notify_result(relayer, intent_data, repayment_address,
                                        messenger_id)
    /\ IF result' \in {"Ok", "InvalidMessenger", "ChainNotFound", "UntrustedSource"}
       THEN LET source_chain == chain_name[intent_data.source_chain_id]
            IN  /\ fill_records' =
                       set_fill_record(fill_records, compute_fill_hash(intent_data),
                                       [relayer |-> relayer,
                                        repayment_address |-> repayment_address])
                /\ balance' = Transfer(balance,
                                       bytes32_to_address(intent_data.destination_token),
                                       relayer,
                                       bytes32_to_address(intent_data.receiver),
                                       intent_data.destination_amount)
                /\ outbound' = IF result' = "Ok"
                               THEN store_outbound_message(
                                        source_chain, trusted_contract[source_chain],
                                        fill_payload(relayer, intent_data,
                                                     repayment_address))
                               ELSE outbound
       ELSE UNCHANGED <<fill_records, balance, outbound>>
    /\ UNCHANGED <<configVars, intents, accumulated_fees, events, now>>
    /\ called' = "fill_and_notify"
    /\ UNCHANGED paymentVars

fill_and_notify(relayer, intent_data, repayment_address, messenger_id) ==
    /\ fill_and_notify_result(relayer, intent_data, repayment_address, messenger_id) = "Ok"
           => Cardinality(DOMAIN fill_records) < MaxFills /\ Len(outbound) < MaxOutbound
    /\ result' = fill_and_notify_result(relayer, intent_data, repayment_address,
                                        messenger_id)
    /\ IF result' = "Ok"
       THEN LET source_chain == chain_name[intent_data.source_chain_id]
            IN  /\ fill_records' =
                       set_fill_record(fill_records, compute_fill_hash(intent_data),
                                       [relayer |-> relayer,
                                        repayment_address |-> repayment_address])
                /\ balance' = Transfer(balance,
                                       bytes32_to_address(intent_data.destination_token),
                                       relayer,
                                       bytes32_to_address(intent_data.receiver),
                                       intent_data.destination_amount)
                /\ outbound' = store_outbound_message(
                                   source_chain, trusted_contract[source_chain],
                                   fill_payload(relayer, intent_data, repayment_address))
       ELSE UNCHANGED <<fill_records, balance, outbound>>
    /\ UNCHANGED <<configVars, intents, accumulated_fees, events, now>>
    /\ called' = "fill_and_notify"
    /\ UNCHANGED paymentVars

\* The retry payload with the caller's own address as the repayment address.
retry_payload_to_caller(relayer, intent_data, record) ==
    encode_notify_payload(intent_data.intent_id, compute_fill_hash(intent_data),
                          address_to_bytes32(relayer), address_to_bytes32(relayer),
                          intent_data.destination_amount)

\* The payload retry_notify builds from the stored record.
retry_payload(relayer, intent_data, record) ==
    encode_notify_payload(intent_data.intent_id, compute_fill_hash(intent_data),
                          record.repayment_address, address_to_bytes32(relayer),
                          intent_data.destination_amount)

\* retry_notify as it would be without the comparison with the stored filler.
retry_notify_result_any_relayer(relayer, intent_data, messenger_id) ==
    IF ~has_fill_record(compute_fill_hash(intent_data)) THEN "IntentNotFound"
    ELSE IF get_messenger_adapter(messenger_id) = NoAddr THEN "InvalidMessenger"
    ELSE IF ~get_chain_name_ok(intent_data.source_chain_id) THEN "ChainNotFound"
    ELSE IF ~get_trusted_contract_ok(chain_name[intent_data.source_chain_id])
         THEN "UntrustedSource"
    ELSE "Ok"

retry_notify_result(relayer, intent_data, messenger_id) ==
    IF ~has_fill_record(compute_fill_hash(intent_data)) THEN "IntentNotFound"
    ELSE IF fill_records[compute_fill_hash(intent_data)].relayer # relayer
         THEN "NotAssignedRelayer"
    ELSE IF get_messenger_adapter(messenger_id) = NoAddr THEN "InvalidMessenger"
    ELSE IF ~get_chain_name_ok(intent_data.source_chain_id) THEN "ChainNotFound"
    ELSE IF ~get_trusted_contract_ok(chain_name[intent_data.source_chain_id])
         THEN "UntrustedSource"
    ELSE "Ok"

\* retry_notify as it would be if it wrote the record again, the caller
\* becoming the repayment address.
retry_notify_rewriting(relayer, intent_data, messenger_id) ==
    /\ retry_notify_result(relayer, intent_data, messenger_id) = "Ok"
           => Len(outbound) < MaxOutbound
    /\ result' = retry_notify_result(relayer, intent_data, messenger_id)
    /\ IF result' = "Ok"
       THEN LET source_chain == chain_name[intent_data.source_chain_id]
                record == fill_records[compute_fill_hash(intent_data)]
            IN  /\ outbound' = store_outbound_message(
                                   source_chain, trusted_contract[source_chain],
                                   retry_payload(relayer, intent_data, record))
                /\ fill_records' =
                       set_fill_record(fill_records, compute_fill_hash(intent_data),
                                       [relayer |-> relayer,
                                        repayment_address |-> address_to_bytes32(relayer)])
       ELSE UNCHANGED <<outbound, fill_records>>
    /\ UNCHANGED <<configVars, intents, accumulated_fees, balance, events, now>>
    /\ called' = "retry_notify"
    /\ UNCHANGED paymentVars

retry_notify(relayer, intent_data, messenger_id) ==
    /\ retry_notify_result(relayer, intent_data, messenger_id) = "Ok"
           => Len(outbound) < MaxOutbound
    /\ result' = retry_notify_result(relayer, intent_data, messenger_id)
    /\ IF result' = "Ok"
       THEN LET source_chain == chain_name[intent_data.source_chain_id]
                record == fill_records[compute_fill_hash(intent_data)]
            IN  outbound' = store_outbound_message(
                                source_chain, trusted_contract[source_chain],
                                retry_payload(relayer, intent_data, record))
       ELSE UNCHANGED outbound
    /\ UNCHANGED <<configVars, intents, fill_records, accumulated_fees, balance,
                   events, now>>
    /\ called' = "retry_notify"
    /\ UNCHANGED paymentVars

(***************************************************************************)
(* The ledger closes: time passes.                                         *)
(***************************************************************************)
Tick ==
    /\ now < MaxTime
    /\ now' = now + 1
    /\ UNCHANGED <<storageVars, balance, events, called, result, paymentVars>>

(***************************************************************************)
(* The v1 Payment contract (src/v1/stellar/payment/src/lib.rs).  Self is   *)
(* its address in the specification that runs it.                          *)
(***************************************************************************)
\* Address::from_string of the mainnet USDC contract id.
USDC_CONTRACT == Ctr(13)

\* The Payment contract as deployed: nothing stored, nothing published.
PaymentDeployed ==
    /\ INIT = FALSE
    /\ DEST = NoAddr
    /\ USDC = NoAddr
    /\ published = <<>>

rozoVars == <<storageVars, events, now>>

\* init as it would be if only a repetition of the stored destination were
\* refused.
init_result_same_destination(destination) ==
    IF INIT /\ DEST = destination THEN "AlreadyInitialized" ELSE "Ok"

init_result(destination) == IF INIT THEN "AlreadyInitialized" ELSE "Ok"

init(destination) ==
    /\ result' = init_result(destination)
    /\ IF result' = "Ok"
       THEN /\ DEST' = destination
            /\ USDC' = USDC_CONTRACT
            /\ INIT' = TRUE
       ELSE UNCHANGED <<DEST, USDC, INIT>>
    /\ UNCHANGED <<published, balance, rozoVars>>
    /\ called' = "init"

pay_result(from, amount) ==
    IF ~INIT THEN "NotInitialized"
    ELSE IF amount <= 0 THEN "ZeroAmount"
    ELSE IF ~CanTransfer(balance, USDC, from, amount) THEN "HostError"
    ELSE "Ok"

pay(from, amount, memo) ==
    /\ result' = pay_result(from, amount)
    /\ IF result' = "Ok"
       THEN /\ balance' = Transfer(balance, USDC, from, DEST, amount)
            /\ published' = Append(published,
                                   [topic |-> "payment", from |-> from,
                                    destination |-> DEST, amount |-> amount,
                                    memo |-> memo])
       ELSE UNCHANGED <<balance, published>>
    /\ UNCHANGED <<INIT, DEST, USDC, rozoVars>>
    /\ called' = "pay"

\* flush as it would be if it tested the amount before the initialization.
flush_result_amount_first(token_contract, amount) ==
    IF amount <= 0 THEN "ZeroAmount"
    ELSE IF ~INIT THEN "NotInitialized"
    ELSE IF ~CanTransfer(balance, token_contract, Self, amount) THEN "HostError"
    ELSE "Ok"

flush_result(token_contract, amount) ==
    IF ~INIT THEN "NotInitialized"
    ELSE IF amount <= 0 THEN "ZeroAmount"
    ELSE IF ~CanTransfer(balance, token_contract, Self, amount) THEN "HostError"
    ELSE "Ok"

flush(token_contract, amount) ==
    /\ result' = flush_result(token_contract, amount)
    /\ IF result' = "Ok"
       THEN /\ balance' = Transfer(balance, token_contract, Self, DEST, amount)
            /\ published' = Append(published,
                                   [topic |-> "flush", token |-> token_contract,
                                    destination |-> DEST, amount |-> amount])
       ELSE UNCHANGED <<balance, published>>
    /\ UNCHANGED <<INIT, DEST, USDC, rozoVars>>
    /\ called' = "flush"

\* env.storage().instance().get(&DEST).unwrap(): a trap while the key is absent.
get_destination_result == IF DEST = NoAddr THEN "HostError" ELSE DEST

get_destination ==
    /\ result' = get_destination_result
    /\ UNCHANGED <<paymentVars, balance, rozoVars>>
    /\ called' = "get_destination"

get_usdc_result == IF USDC = NoAddr THEN "HostError" ELSE USDC

get_usdc ==
    /\ result' = get_usdc_result
    /\ UNCHANGED <<paymentVars, balance, rozoVars>>
    /\ called' = "get_usdc"

(***************************************************************************)
(* What the callers submit.                                                *)
(***************************************************************************)
\* The snapshot of a stored intent a relayer fills from: every field as
\* stored, native addresses as their 32 bytes, the source contract's chain id.
Snapshot(intent) ==
    [intent_id |-> intent.intent_id,
     sender |-> intent.sender.key,
     refund_address |-> intent.refund_address.key,
     source_token |-> intent.source_token.key,
     source_amount |-> intent.source_amount,
     source_chain_id |-> chain_id,
     destination_chain_id |-> intent.destination_chain_id,
     destination_token |-> intent.destination_token,
     receiver |-> intent.receiver,
     destination_amount |-> intent.destination_amount,
     deadline |-> intent.deadline,
     created_at |-> intent.created_at,
     relayer |-> intent.relayer]

\* An IntentData for an id the source chain never stored.
UnknownData(intent_id) ==
    [intent_id |-> intent_id, sender |-> Alice.key, refund_address |-> Alice.key,
     source_token |-> TokenS.key, source_amount |-> 3333, source_chain_id |-> 1500,
     destination_chain_id |-> 8453, destination_token |-> TokenD.key,
     receiver |-> Receiver.key, destination_amount |-> 100, deadline |-> 2,
     created_at |-> 0, relayer |-> ZERO_BYTES32]

FilledData(intent_id) ==
    IF has_intent(intent_id) THEN Snapshot(intents[intent_id])
    ELSE UnknownData(intent_id)

\* The messages an adapter may hand to notify for an intent id: the payload of
\* a faithful fill, of a fill made with an altered destination_amount or an
\* altered relayer, a faithful hash with an amount below, at one above the
\* destination amount, and buffers of the wrong length.
GoodPayload(intent_id) ==
    fill_payload(RelayerR, FilledData(intent_id), RelayerR.key)

TamperedPayload(intent_id) ==
    fill_payload(RelayerR,
                 [FilledData(intent_id) EXCEPT !.destination_amount = @ + 1],
                 RelayerR.key)

UnderpaidPayload(intent_id) ==
    LET d == FilledData(intent_id)
    IN  encode_notify_payload(intent_id, compute_fill_hash(d), RelayerR.key,
                              RelayerR.key, d.destination_amount - 1)

OverpaidPayload(intent_id) ==
    LET d == FilledData(intent_id)
    IN  encode_notify_payload(intent_id, compute_fill_hash(d), RelayerR.key,
                              RelayerR.key, d.destination_amount + 1)

ShortPayload(intent_id) ==
    [words |-> <<intent_id, compute_fill_hash(FilledData(intent_id))>>, tail |-> <<>>]

PayloadKinds == {"good", "tampered", "underpaid", "overpaid", "short"}

Payload(kind, intent_id) ==
    CASE kind = "good" -> GoodPayload(intent_id)
      [] kind = "tampered" -> TamperedPayload(intent_id)
      [] kind = "underpaid" -> UnderpaidPayload(intent_id)
      [] kind = "overpaid" -> OverpaidPayload(intent_id)
      [] kind = "short" -> ShortPayload(intent_id)

\* <<caller, messenger_id, kind of payload>>: every payload through adapter 0,
\* the faithful one through adapter 1, through an unregistered id, from an
\* adapter registered under another id and from a stranger.
NotifyCalls ==
    {<<Adapter0, 0, kind>> : kind \in PayloadKinds}
    \cup {<<Adapter1, 1, "good">>, <<Adapter0, 2, "good">>,
          <<Adapter1, 0, "good">>, <<Mallory, 0, "good">>}

SourceAmount == 3333
DestinationAmount == 100

\* <<source_amount, deadline, refund_address, relayer>>: an order that is
\* valid until the ledger time reaches its deadline, refunds going to Bob, and
\* one without an amount.
CreateArgs ==
    {<<SourceAmount, 2, Bob, ZERO_BYTES32>>,
     <<0, 2, Alice, ZERO_BYTES32>>}

(***************************************************************************)
(* SpecLifecycle: the source chain after initialize, set_protocol_fee(3)   *)
(* and the registration of adapters 0 and 1.  Senders create intents and   *)
(* refund them, adapters deliver notifications, the owner sets the fee.    *)
(***************************************************************************)
InitLifecycle ==
    /\ owner = OwnerAddr
    /\ fee_recipient = FeeRcpt
    /\ chain_id = 1500
    /\ protocol_fee = 3
    /\ rozo_relayer = NoAddr
    /\ rozo_threshold = 0
    /\ relayer_type = [a \in RelayerAddrs |-> "None"]
    /\ messenger_adapter = [m \in MessengerIds |->
                               IF m = 0 THEN Adapter0
                               ELSE IF m = 1 THEN Adapter1 ELSE NoAddr]
    /\ trusted_contract = [n \in ChainNames |-> NoName]
    /\ chain_name = [c \in ChainIds |-> NoName]
    /\ intents = <<>>
    /\ fill_records = <<>>
    /\ accumulated_fees = [t \in Tokens |-> 0]
    /\ outbound = <<>>
    /\ balance = [p \in Tokens \X Holders |->
                     IF p = <<TokenS, Alice>> THEN 10000 ELSE 0]
    /\ events = NoEvents
    /\ now = 0
    /\ called = "deploy"
    /\ result = "Ok"
    /\ PaymentDeployed

CreateStep ==
    \E intent_id \in IntentIds, a \in CreateArgs :
        create_intent(Alice, intent_id, TokenS, a[1], 8453, TokenD.key,
                      Receiver.key, DestinationAmount, a[2], a[3], a[4])

RefundStep ==
    \E caller \in {Alice, Bob, Mallory}, intent_id \in IntentIds :
        refund(caller, intent_id)

NotifyStep ==
    \E intent_id \in IntentIds, call \in NotifyCalls :
        notify(call[1], call[2], Payload(call[3], intent_id))

SetFeeStep == \E fee_bps \in {30, 31} : set_protocol_fee(OwnerAddr, fee_bps)

NextLifecycle ==
    \/ CreateStep
    \/ RefundStep
    \/ NotifyStep
    \/ SetFeeStep
    \/ Tick

SpecLifecycle == InitLifecycle /\ [][NextLifecycle]_vars

(***************************************************************************)
(* SpecAdmin: the contract after initialize(owner = OwnerAddr), the        *)
(* configuration of the test setup and one create_intent.  Every admin     *)
(* entry point is called, signed by the owner or by Mallory; adapter 0     *)
(* delivers the notification of a faithful fill.                           *)
(***************************************************************************)
InitAdmin ==
    /\ owner = OwnerAddr
    /\ fee_recipient = FeeRcpt
    /\ chain_id = 1500
    /\ protocol_fee = 3
    /\ rozo_relayer = NoAddr
    /\ rozo_threshold = 0
    /\ relayer_type = [a \in RelayerAddrs |-> IF a = RelayerR THEN "External" ELSE "None"]
    /\ messenger_adapter = [m \in MessengerIds |->
                               IF m = 0 THEN Adapter0
                               ELSE IF m = 1 THEN Adapter1 ELSE NoAddr]
    /\ trusted_contract = [n \in ChainNames |-> IF n = "base" THEN "0x123" ELSE NoName]
    /\ chain_name = [c \in ChainIds |->
                        IF c = 8453 THEN "base"
                        ELSE IF c = 1500 THEN "stellar" ELSE NoName]
    /\ intents = (1 :> [intent_id |-> 1, sender |-> Alice, refund_address |-> Alice,
                        source_token |-> TokenS, source_amount |-> SourceAmount,
                        destination_chain_id |-> 8453,
                        destination_token |-> TokenD.key, receiver |-> Receiver.key,
                        destination_amount |-> DestinationAmount, deadline |-> 1,
                        created_at |-> 0, status |-> "Pending",
                        relayer |-> ZERO_BYTES32])
    /\ fill_records = <<>>
    /\ accumulated_fees = [t \in Tokens |-> 0]
    /\ outbound = <<>>
    /\ balance = [p \in Tokens \X Holders |->
                     IF p = <<TokenS, Alice>> THEN 10000 - SourceAmount
                     ELSE IF p = <<TokenS, Self>> THEN SourceAmount ELSE 0]
    /\ events = NoEvents
    /\ now = 0
    /\ called = "create_intent"
    /\ result = "Ok"
    /\ PaymentDeployed

Admins == {OwnerAddr, Mallory}

\* The admin calls signed by `admin`.
AdminCall(admin) ==
    \/ \E fee_bps \in {30, 31} : set_protocol_fee(admin, fee_bps)
    \/ set_fee_rcpt(admin, Mallory)
    \/ \E new_type \in {"External", "None"} : add_relayer(admin, Mallory, new_type)
    \/ remove_relayer(admin, Mallory)
    \/ set_msger_adapter(admin, 2, Mallory)
    \/ set_trusted_contract(admin, "stellar", "0x456")
    \/ set_chain_id_to_name(admin, 1, "base")
    \/ set_rozo_relayer(admin, RelayerF)
    \/ set_rozo_threshold(admin, 1)
    \/ \E status \in {"Pending", "Failed"} : set_intent_status(admin, 1, status)
    \/ set_intent_relayer(admin, 1, RelayerR.key)
    \/ admin_refund(admin, 1)
    \/ withdraw_fees(admin, TokenS)

NextAdmin ==
    \/ \E admin \in Admins : AdminCall(admin)
    \/ notify(Adapter0, 0, GoodPayload(1))
    \/ \E again \in Admins : initialize(again, again, 1)

SpecAdmin == InitAdmin /\ [][NextAdmin]_vars

(***************************************************************************)
(* SpecFill: the contract in its destination role, configured as the test  *)
(* setup does (chain 1500, "base" trusted), with an external relayer       *)
(* RelayerR and a Rozo relayer RelayerF, both holding the destination      *)
(* token.  Relayers, and Mallory, fill and retry.                          *)
(***************************************************************************)
\* The order as the source chain (8453) recorded it, open to any relayer.
OpenData ==
    [intent_id |-> 1, sender |-> Alice.key, refund_address |-> Alice.key,
     source_token |-> TokenS.key, source_amount |-> SourceAmount,
     source_chain_id |-> 8453, destination_chain_id |-> 1500,
     destination_token |-> TokenD.key, receiver |-> Receiver.key,
     destination_amount |-> DestinationAmount, deadline |-> 2, created_at |-> 0,
     relayer |-> ZERO_BYTES32]

AssignedData == [OpenData EXCEPT !.relayer = address_to_bytes32(RelayerR)]
WrongChainData == [OpenData EXCEPT !.destination_chain_id = 8453]
UnmappedSourceData == [OpenData EXCEPT !.source_chain_id = 1]
UntrustedSourceData == [OpenData EXCEPT !.source_chain_id = 1500]
AlteredAmountData == [OpenData EXCEPT !.destination_amount = @ + 1]

\* <<relayer, intent_data, repayment_address, messenger_id>>
FillCalls ==
    { <<RelayerR, OpenData, Ctr(6).key, 0>>,
      <<RelayerR, OpenData, Ctr(5).key, 1>>,
      <<RelayerF, OpenData, Ctr(5).key, 1>>,
      <<RelayerR, OpenData, Ctr(6).key, 2>>,
      <<Mallory, OpenData, Ctr(5).key, 0>>,
      <<RelayerR, AssignedData, Ctr(6).key, 0>>,
      <<RelayerF, AssignedData, Ctr(5).key, 0>>,
      <<RelayerR, WrongChainData, Ctr(6).key, 0>>,
      <<RelayerR, UnmappedSourceData, Ctr(6).key, 0>>,
      <<RelayerR, UntrustedSourceData, Ctr(6).key, 0>>,
      <<RelayerR, AlteredAmountData, Ctr(6).key, 1>>,
      <<RelayerF, AlteredAmountData, Ctr(5).key, 0>> }

\* <<relayer, intent_data, messenger_id>>
RetryCalls ==
    { <<RelayerR, OpenData, 0>>,
      <<RelayerR, OpenData, 1>>,
      <<RelayerR, OpenData, 2>>,
      <<RelayerF, OpenData, 1>>,
      <<RelayerF, OpenData, 2>>,
      <<Mallory, OpenData, 0>>,
      <<RelayerR, AssignedData, 1>>,
      <<RelayerR, AlteredAmountData, 0>>,
      <<Mallory, UnmappedSourceData, 2>> }

InitFill ==
    /\ owner = OwnerAddr
    /\ fee_recipient = FeeRcpt
    /\ chain_id = 1500
    /\ protocol_fee = 3
    /\ rozo_relayer = NoAddr
    /\ rozo_threshold = 0
    /\ relayer_type = [a \in RelayerAddrs |->
                          IF a = RelayerR THEN "External"
                          ELSE IF a = RelayerF THEN "Rozo" ELSE "None"]
    /\ messenger_adapter = [m \in MessengerIds |->
                               IF m = 0 THEN Adapter0
                               ELSE IF m = 1 THEN Adapter1 ELSE NoAddr]
    /\ trusted_contract = [n \in ChainNames |-> IF n = "base" THEN "0x123" ELSE NoName]
    /\ chain_name = [c \in ChainIds |->
                        IF c = 8453 THEN "base"
                        ELSE IF c = 1500 THEN "stellar" ELSE NoName]
    /\ intents = <<>>
    /\ fill_records = <<>>
    /\ accumulated_fees = [t \in Tokens |-> 0]
    /\ outbound = <<>>
    /\ balance = [p \in Tokens \X Holders |->
                     IF p = <<TokenD, RelayerR>> THEN 4 * DestinationAmount
                     ELSE IF p = <<TokenD, RelayerF>> THEN DestinationAmount ELSE 0]
    /\ events = NoEvents
    /\ now = 0
    /\ called = "deploy"
    /\ result = "Ok"
    /\ PaymentDeployed

FillStep == \E call \in FillCalls : fill_and_notify(call[1], call[2], call[3], call[4])

RetryStep == \E call \in RetryCalls : retry_notify(call[1], call[2], call[3])

NextFill ==
    \/ FillStep
    \/ RetryStep
    \/ Tick

SpecFill == InitFill /\ [][NextFill]_vars

(***************************************************************************)
(* SpecFallback: the destination role with the owner configuring the Rozo  *)
(* fallback (set_rozo_relayer, set_rozo_threshold) and the relayer         *)
(* whitelist (add_relayer, remove_relayer) while relayers try to fill      *)
(* orders assigned to RelayerR.                                            *)
(***************************************************************************)
\* An order assigned to RelayerR, created at 0, and one created at 1.
FallbackData == [AssignedData EXCEPT !.deadline = 3]
LateData == [FallbackData EXCEPT !.created_at = 1]

\* <<relayer, intent_data, repayment_address, messenger_id>>
FallbackCalls ==
    { <<RelayerF, FallbackData, Ctr(6).key, 0>>,
      <<RelayerF, LateData, Ctr(6).key, 0>>,
      <<RelayerF, OpenData, Ctr(6).key, 0>>,
      <<RelayerR, FallbackData, Ctr(5).key, 0>>,
      <<Mallory, FallbackData, Ctr(5).key, 0>>,
      <<Mallory, OpenData, Ctr(5).key, 0>>,
      <<Mallory, WrongChainData, Ctr(5).key, 2>> }

Thresholds == {0, 1, 2}

InitFallback ==
    /\ owner = OwnerAddr
    /\ fee_recipient = FeeRcpt
    /\ chain_id = 1500
    /\ protocol_fee = 3
    /\ rozo_relayer = NoAddr
    /\ rozo_threshold = 0
    /\ relayer_type = [a \in RelayerAddrs |->
                          IF a = RelayerR THEN "External"
                          ELSE IF a = RelayerF THEN "Rozo" ELSE "None"]
    /\ messenger_adapter = [m \in MessengerIds |->
                               IF m = 0 THEN Adapter0
                               ELSE IF m = 1 THEN Adapter1 ELSE NoAddr]
    /\ trusted_contract = [n \in ChainNames |-> IF n = "base" THEN "0x123" ELSE NoName]
    /\ chain_name = [c \in ChainIds |->
                        IF c = 8453 THEN "base"
                        ELSE IF c = 1500 THEN "stellar" ELSE NoName]
    /\ intents = <<>>
    /\ fill_records = <<>>
    /\ accumulated_fees = [t \in Tokens |-> 0]
    /\ outbound = <<>>
    /\ balance = [p \in Tokens \X Holders |->
                     IF p[1] = TokenD /\ p[2] \in RelayerAddrs
                     THEN 4 * DestinationAmount ELSE 0]
    /\ events = NoEvents
    /\ now = 0
    /\ called = "deploy"
    /\ result = "Ok"
    /\ PaymentDeployed

FallbackFillStep ==
    \E call \in FallbackCalls : fill_and_notify(call[1], call[2], call[3], call[4])

SetRozoRelayerStep == set_rozo_relayer(OwnerAddr, RelayerF)

SetRozoThresholdStep ==
    \E threshold \in Thresholds : set_rozo_threshold(OwnerAddr, threshold)

AddRelayerStep ==
    \E new_type \in {"External", "None"} : add_relayer(OwnerAddr, Mallory, new_type)

RemoveRelayerStep == remove_relayer(OwnerAddr, Mallory)

NextFallback ==
    \/ FallbackFillStep
    \/ SetRozoRelayerStep
    \/ SetRozoThresholdStep
    \/ AddRelayerStep
    \/ RemoveRelayerStep
    \/ Tick

SpecFallback == InitFallback /\ [][NextFallback]_vars

(***************************************************************************)
(* SpecStuck: orders assigned to RelayerR, who never fills them.  RelayerF *)
(* is the configured fallback relayer and the threshold is 1 or 2; it and  *)
(* Mallory try to fill, RelayerF retries its notifications, and ledgers    *)
(* keep closing (weak fairness of Tick).                                   *)
(***************************************************************************)
StuckOrders == {AssignedData, LateData}

InitStuck ==
    /\ owner = OwnerAddr
    /\ fee_recipient = FeeRcpt
    /\ chain_id = 1500
    /\ protocol_fee = 3
    /\ rozo_relayer = RelayerF
    /\ rozo_threshold \in Thresholds \ {0}
    /\ relayer_type = [a \in RelayerAddrs |->
                          IF a = RelayerR THEN "External"
                          ELSE IF a = RelayerF THEN "Rozo" ELSE "None"]
    /\ messenger_adapter = [m \in MessengerIds |->
                               IF m = 0 THEN Adapter0
                               ELSE IF m = 1 THEN Adapter1 ELSE NoAddr]
    /\ trusted_contract = [n \in ChainNames |-> IF n = "base" THEN "0x123" ELSE NoName]
    /\ chain_name = [c \in ChainIds |->
                        IF c = 8453 THEN "base"
                        ELSE IF c = 1500 THEN "stellar" ELSE NoName]
    /\ intents = <<>>
    /\ fill_records = <<>>
    /\ accumulated_fees = [t \in Tokens |-> 0]
    /\ outbound = <<>>
    /\ balance = [p \in Tokens \X Holders |->
                     IF p[1] = TokenD /\ p[2] \in RelayerAddrs
                     THEN 4 * DestinationAmount ELSE 0]
    /\ events = NoEvents
    /\ now = 0
    /\ called = "deploy"
    /\ result = "Ok"
    /\ PaymentDeployed

StuckFillStep ==
    \E relayer \in {RelayerF, Mallory}, intent_data \in StuckOrders,
       repayment_address \in {Ctr(5).key, Ctr(6).key}, messenger_id \in MessengerIds :
        fill_and_notify(relayer, intent_data, repayment_address, messenger_id)

StuckRetryStep ==
    \E intent_data \in StuckOrders, messenger_id \in MessengerIds :
        retry_notify(RelayerF, intent_data, messenger_id)

NextStuck ==
    \/ StuckFillStep
    \/ StuckRetryStep
    \/ Tick

SpecStuck == InitStuck /\ [][NextStuck]_vars /\ WF_vars(Tick)

(***************************************************************************)
(* SpecEscrow: the source chain of SpecLifecycle with every way a creation *)
(* can be refused, a refund address that is or is not the sender, an       *)
(* assigned relayer, and the owner reassigning the relayer of an intent.   *)
(***************************************************************************)
\* <<source_amount, destination_amount, deadline, refund_address, relayer>>
EscrowCreates ==
    {<<SourceAmount, DestinationAmount, 2, Alice, ZERO_BYTES32>>,
     <<SourceAmount, DestinationAmount, 1, Bob, RelayerR.key>>,
     <<0, DestinationAmount, 2, Alice, ZERO_BYTES32>>,
     <<SourceAmount, 0, 2, Alice, ZERO_BYTES32>>,
     <<-1, -1, 2, Alice, ZERO_BYTES32>>}

EscrowCreate(intent_id, a) ==
    create_intent(Alice, intent_id, TokenS, a[1], 8453, TokenD.key, Receiver.key,
                  a[2], a[3], a[4], a[5])

EscrowCreateStep ==
    \E intent_id \in IntentIds, a \in EscrowCreates : EscrowCreate(intent_id, a)

EscrowNotifyKinds == {"good", "tampered"}

EscrowNotifyStep ==
    \E intent_id \in IntentIds, kind \in EscrowNotifyKinds :
        notify(Adapter0, 0, Payload(kind, intent_id))

AssignableRelayers == {ZERO_BYTES32, RelayerF.key}

SetIntentRelayerStep ==
    \E intent_id \in IntentIds, relayer \in AssignableRelayers :
        set_intent_relayer(OwnerAddr, intent_id, relayer)

NextEscrow ==
    \/ EscrowCreateStep
    \/ RefundStep
    \/ EscrowNotifyStep
    \/ SetIntentRelayerStep
    \/ Tick

SpecEscrow == InitLifecycle /\ [][NextEscrow]_vars

(***************************************************************************)
(* SpecRecords: one contract holding both a Pending intent and the fills   *)
(* made on it as a destination.  Relayers fill and retry, adapter 0        *)
(* delivers a notification for the stored intent, and the owner removes    *)
(* and re-adds the filling relayer, refunds the intent and withdraws fees. *)
(***************************************************************************)
\* <<relayer, intent_data, repayment_address, messenger_id>>
RecordsFillCalls ==
    { <<RelayerR, OpenData, Ctr(6).key, 0>>,
      <<RelayerF, OpenData, Ctr(5).key, 1>>,
      <<RelayerR, AssignedData, Ctr(5).key, 0>>,
      <<RelayerR, UnmappedSourceData, Ctr(6).key, 0>> }

\* <<relayer, intent_data, messenger_id>>
RecordsRetryCalls ==
    { <<RelayerR, OpenData, 1>>,
      <<RelayerF, OpenData, 1>>,
      <<RelayerR, AssignedData, 2>> }

InitRecords ==
    /\ owner = OwnerAddr
    /\ fee_recipient = FeeRcpt
    /\ chain_id = 1500
    /\ protocol_fee = 3
    /\ rozo_relayer = NoAddr
    /\ rozo_threshold = 0
    /\ relayer_type = [a \in RelayerAddrs |->
                          IF a = RelayerR THEN "External"
                          ELSE IF a = RelayerF THEN "Rozo" ELSE "None"]
    /\ messenger_adapter = [m \in MessengerIds |->
                               IF m = 0 THEN Adapter0
                               ELSE IF m = 1 THEN Adapter1 ELSE NoAddr]
    /\ trusted_contract = [n \in ChainNames |-> IF n = "base" THEN "0x123" ELSE NoName]
    /\ chain_name = [c \in ChainIds |->
                        IF c = 8453 THEN "base"
                        ELSE IF c = 1500 THEN "stellar" ELSE NoName]
    /\ intents = (1 :> [intent_id |-> 1, sender |-> Alice, refund_address |-> Alice,
                        source_token |-> TokenS, source_amount |-> SourceAmount,
                        destination_chain_id |-> 8453,
                        destination_token |-> TokenD.key, receiver |-> Receiver.key,
                        destination_amount |-> DestinationAmount, deadline |-> 1,
                        created_at |-> 0, status |-> "Pending",
                        relayer |-> ZERO_BYTES32])
    /\ fill_records = <<>>
    /\ accumulated_fees = [t \in Tokens |-> 0]
    /\ outbound = <<>>
    /\ balance = [p \in Tokens \X Holders |->
                     IF p = <<TokenS, Alice>> THEN 10000 - SourceAmount
                     ELSE IF p = <<TokenS, Self>> THEN SourceAmount
                     ELSE IF p = <<TokenD, RelayerR>> THEN 4 * DestinationAmount
                     ELSE IF p = <<TokenD, RelayerF>> THEN DestinationAmount ELSE 0]
    /\ events = NoEvents
    /\ now = 0
    /\ called = "create_intent"
    /\ result = "Ok"
    /\ PaymentDeployed

RecordsFillStep ==
    \E call \in RecordsFillCalls : fill_and_notify(call[1], call[2], call[3], call[4])

RecordsRetryStep ==
    \E call \in RecordsRetryCalls : retry_notify(call[1], call[2], call[3])

RecordsNotifyStep == notify(Adapter0, 0, GoodPayload(1))

RecordsAdminStep ==
    \/ remove_relayer(OwnerAddr, RelayerR)
    \/ add_relayer(OwnerAddr, RelayerR, "External")
    \/ admin_refund(OwnerAddr, 1)
    \/ withdraw_fees(OwnerAddr, TokenD)

NextRecords ==
    \/ RecordsFillStep
    \/ RecordsRetryStep
    \/ RecordsNotifyStep
    \/ RecordsAdminStep
    \/ Tick

SpecRecords == InitRecords /\ [][NextRecords]_vars

(***************************************************************************)
(* SpecAgree: the source chain receiving what the destination chain sends. *)
(* A relayer fills from the snapshot of a stored intent, or from a         *)
(* snapshot taken with the destination's chain id as the source, and       *)
(* adapter 0 delivers the payload fill_and_notify builds for that fill;    *)
(* the owner may reassign the intent's relayer in between.                 *)
(***************************************************************************)
\* <<deadline, relayer>>
AgreeCreates == {<<2, ZERO_BYTES32>>, <<1, RelayerR.key>>}

AgreeCreateStep ==
    \E intent_id \in IntentIds, a \in AgreeCreates :
        create_intent(Alice, intent_id, TokenS, SourceAmount, 8453, TokenD.key,
                      Receiver.key, DestinationAmount, a[1], Bob, a[2])

\* The snapshot with the chain ids as a relayer mistaking the source for the
\* destination would write them.
MisreadSnapshot(intent) ==
    [Snapshot(intent) EXCEPT !.source_chain_id = intent.destination_chain_id]

\* <<relayer, repayment_address>>
AgreeFillers == {<<RelayerR, Ctr(5).key>>, <<RelayerF, Ctr(6).key>>}

\* What the destination's fill_and_notify sends for a fill from intent_data.
AgreeDeliver(filler, intent_data) ==
    notify(Adapter0, 0, fill_payload(filler[1], intent_data, filler[2]))

AgreeNotifyStep ==
    \E intent_id \in DOMAIN intents, filler \in AgreeFillers :
        \/ AgreeDeliver(filler, Snapshot(intents[intent_id]))
        \/ AgreeDeliver(filler, MisreadSnapshot(intents[intent_id]))

NextAgree ==
    \/ AgreeCreateStep
    \/ AgreeNotifyStep
    \/ SetIntentRelayerStep
    \/ Tick

SpecAgree == InitLifecycle /\ [][NextAgree]_vars

(***************************************************************************)
(* SpecFee: the fee arithmetic of complete_fill on its inputs.  One intent *)
(* is Pending with a source_amount drawn from the range of an i128 and the *)
(* contract holds its escrow; the fee rate is any rate set_protocol_fee    *)
(* accepts.  Adapter 0 delivers the notification of a faithful fill, the   *)
(* owner withdraws the fee.                                                *)
(***************************************************************************)
FeeAmounts ==
    {1, 333, 334, 3333, 9999, 10000, 10001,
     I128_MAX \div 30, I128_MAX \div 30 + 1, 2^AmountBits \div 30 + 1, I128_MAX}

FeeRates == 0..30

InitFee ==
    /\ owner = OwnerAddr
    /\ fee_recipient = FeeRcpt
    /\ chain_id = 1500
    /\ protocol_fee \in FeeRates
    /\ rozo_relayer = NoAddr
    /\ rozo_threshold = 0
    /\ relayer_type = [a \in RelayerAddrs |-> "None"]
    /\ messenger_adapter = [m \in MessengerIds |-> IF m = 0 THEN Adapter0 ELSE NoAddr]
    /\ trusted_contract = [n \in ChainNames |-> NoName]
    /\ chain_name = [c \in ChainIds |-> NoName]
    /\ \E amount \in FeeAmounts :
          /\ intents = (1 :> [intent_id |-> 1, sender |-> Alice,
                              refund_address |-> Alice, source_token |-> TokenS,
                              source_amount |-> amount,
                              destination_chain_id |-> 8453,
                              destination_token |-> TokenD.key,
                              receiver |-> Receiver.key,
                              destination_amount |-> DestinationAmount,
                              deadline |-> 1, created_at |-> 0,
                              status |-> "Pending", relayer |-> ZERO_BYTES32])
          /\ balance = [p \in Tokens \X Holders |->
                           IF p = <<TokenS, Self>> THEN amount ELSE 0]
    /\ fill_records = <<>>
    /\ accumulated_fees = [t \in Tokens |-> 0]
    /\ outbound = <<>>
    /\ events = NoEvents
    /\ now = 0
    /\ called = "create_intent"
    /\ result = "Ok"
    /\ PaymentDeployed

FeeNotifyStep == notify(Adapter0, 0, GoodPayload(1))

FeeWithdrawStep == withdraw_fees(OwnerAddr, TokenS)

NextFee ==
    \/ FeeNotifyStep
    \/ FeeWithdrawStep

SpecFee == InitFee /\ [][NextFee]_vars

(***************************************************************************)
(* SpecFees: the source chain right after initialize, before any fee was   *)
(* set.  The owner sets the fee rate and withdraws fees, Alice creates     *)
(* intents, adapter 0 delivers faithful and tampered notifications.        *)
(***************************************************************************)
\* The rates asked for: within the cap, at it, above it.
RequestedRates == {0, 7, 30, 31, 10000}

InitFees ==
    /\ owner = OwnerAddr
    /\ fee_recipient = FeeRcpt
    /\ chain_id = 1500
    /\ protocol_fee = 0
    /\ rozo_relayer = NoAddr
    /\ rozo_threshold = 0
    /\ relayer_type = [a \in RelayerAddrs |-> "None"]
    /\ messenger_adapter = [m \in MessengerIds |-> IF m = 0 THEN Adapter0 ELSE NoAddr]
    /\ trusted_contract = [n \in ChainNames |-> NoName]
    /\ chain_name = [c \in ChainIds |-> NoName]
    /\ intents = <<>>
    /\ fill_records = <<>>
    /\ accumulated_fees = [t \in Tokens |-> 0]
    /\ outbound = <<>>
    /\ balance = [p \in Tokens \X Holders |->
                     IF p = <<TokenS, Alice>> THEN 10000 ELSE 0]
    /\ events = NoEvents
    /\ now = 0
    /\ called = "initialize"
    /\ result = "Ok"
    /\ PaymentDeployed

FeesCreateStep ==
    \E intent_id \in IntentIds :
        create_intent(Alice, intent_id, TokenS, SourceAmount, 8453, TokenD.key,
                      Receiver.key, DestinationAmount, 1, Alice, ZERO_BYTES32)

FeesSetStep == \E fee_bps \in RequestedRates : set_protocol_fee(OwnerAddr, fee_bps)

FeesNotifyStep ==
    \E intent_id \in IntentIds, kind \in EscrowNotifyKinds :
        notify(Adapter0, 0, Payload(kind, intent_id))

FeesWithdrawStep == \E token \in Tokens : withdraw_fees(OwnerAddr, token)

NextFees ==
    \/ FeesCreateStep
    \/ FeesSetStep
    \/ FeesNotifyStep
    \/ FeesWithdrawStep

SpecFees == InitFees /\ [][NextFees]_vars

(***************************************************************************)
(* SpecRescue: SpecEscrow with the owner's admin_refund in the place of    *)
(* set_intent_relayer.                                                     *)
(***************************************************************************)
AdminRefundStep == \E intent_id \in IntentIds : admin_refund(OwnerAddr, intent_id)

NextRescue ==
    \/ EscrowCreateStep
    \/ RefundStep
    \/ EscrowNotifyStep
    \/ AdminRefundStep
    \/ Tick

SpecRescue == InitLifecycle /\ [][NextRescue]_vars

(***************************************************************************)
(* SpecStatus: the owner overrides the status of the stored intent 1 and   *)
(* of an id that was never stored, while the intent is refunded, filled    *)
(* and refunded by the owner.                                              *)
(***************************************************************************)
IntentStatus == {"Pending", "Filled", "Failed", "Refunded"}

\* An intent id no create_intent has stored.
UnknownIntent == MaxIntents + 1

StatusStep ==
    \E intent_id \in {1, UnknownIntent}, status \in IntentStatus :
        set_intent_status(OwnerAddr, intent_id, status)

NextStatus ==
    \/ StatusStep
    \/ refund(Alice, 1)
    \/ notify(Adapter0, 0, GoodPayload(1))
    \/ admin_refund(OwnerAddr, 1)
    \/ Tick

SpecStatus == InitAdmin /\ [][NextStatus]_vars

(***************************************************************************)
(* SpecCodec: the notification payload on both sides.  Relayers fill on    *)
(* the contract of SpecRecords, which encodes and queues a payload per     *)
(* fill, and adapter 0 hands notify the encoding of every field set of     *)
(* CodecFields and buffers that are not 160 bytes long.                    *)
(***************************************************************************)
\* The amounts carried: the ends of the range, both sides of zero and of each
\* byte boundary, and both sides of the stored intent's destination_amount.
CodecAmounts ==
    { -I128_MAX - 1, -I128_MAX, -65537, -65536, -257, -256, -255, -1, 0, 1, 255, 256, 65535, 65536, DestinationAmount - 1, DestinationAmount, I128_MAX - 1, I128_MAX }

\* Every amount in one field set, and every choice of the four words with
\* the amount the stored intent asks for.
CodecFields ==
    [intent_id : {1}, fill_hash : {compute_fill_hash(FilledData(1))},
     repayment_address : {RelayerR.key}, relayer : {RelayerR.key},
     amount : CodecAmounts]
    \cup
    [intent_id : {1, MaxIntents + 1},
     fill_hash : {compute_fill_hash(FilledData(1)), compute_fill_hash(OpenData)},
     repayment_address : {RelayerR.key, Ctr(5).key},
     relayer : {RelayerR.key, RelayerF.key},
     amount : {DestinationAmount}]

EncodeFields(f) ==
    encode_notify_payload(f.intent_id, f.fill_hash, f.repayment_address, f.relayer, f.amount)

\* Buffers of 0, 64, 159, 161 and 192 bytes.
WrongLengthBuffers ==
    { [words |-> <<>>, tail |-> <<>>],
      [words |-> <<1, compute_fill_hash(OpenData)>>, tail |-> <<>>],
      [words |-> <<1, compute_fill_hash(OpenData), RelayerR.key, RelayerR.key>>,
       tail |-> [i \in 1..31 |-> 0]],
      [words |-> <<1, compute_fill_hash(OpenData), RelayerR.key, RelayerR.key>>,
       tail |-> [i \in 1..33 |-> 0]],
      [words |-> <<1, compute_fill_hash(OpenData), RelayerR.key, RelayerR.key, 0>>,
       tail |-> [i \in 1..32 |-> 0]] }

CodecNotifyStep ==
    \E f \in CodecFields : notify(Adapter0, 0, EncodeFields(f))

WrongLengthStep ==
    \E message_data \in WrongLengthBuffers : notify(Adapter0, 0, message_data)

NextCodec ==
    \/ RecordsFillStep
    \/ CodecNotifyStep
    \/ WrongLengthStep
    \/ Tick

SpecCodec == InitRecords /\ [][NextCodec]_vars

(***************************************************************************)
(* SpecInit: the contract as deployed, with nothing stored.  Anyone calls  *)
(* initialize, with the owner's or with Mallory's arguments; the owner     *)
(* replaces the fee recipient and sets the fee, and Alice creates intents. *)
(***************************************************************************)
InitDeployed ==
    /\ owner = NoAddr
    /\ fee_recipient = NoAddr
    /\ chain_id = 0
    /\ protocol_fee = 0
    /\ rozo_relayer = NoAddr
    /\ rozo_threshold = 0
    /\ relayer_type = [a \in RelayerAddrs |-> "None"]
    /\ messenger_adapter = [m \in MessengerIds |-> NoAddr]
    /\ trusted_contract = [n \in ChainNames |-> NoName]
    /\ chain_name = [c \in ChainIds |-> NoName]
    /\ intents = <<>>
    /\ fill_records = <<>>
    /\ accumulated_fees = [t \in Tokens |-> 0]
    /\ outbound = <<>>
    /\ balance = [p \in Tokens \X Holders |->
                     IF p = <<TokenS, Alice>> THEN 10000 ELSE 0]
    /\ events = NoEvents
    /\ now = 0
    /\ called = "deploy"
    /\ result = "Ok"
    /\ PaymentDeployed

\* <<owner, fee_recipient, chain_id>>
InitializeArgs == {OwnerAddr, Mallory} \X {FeeRcpt, Mallory} \X {1500, 1}

InitializeStep == \E a \in InitializeArgs : initialize(a[1], a[2], a[3])

NextInit ==
    \/ InitializeStep
    \/ set_fee_rcpt(OwnerAddr, Bob)
    \/ set_protocol_fee(OwnerAddr, 30)
    \/ FeesCreateStep
    \/ Tick

SpecInit == InitDeployed /\ [][NextInit]_vars

(***************************************************************************)
(* SpecPayment: the Payment contract from its deployment.  It holds 2 USDC *)
(* and 3 of another token sent to it by mistake; Alice holds 2 USDC.       *)
(* Anyone calls init, with a destination that may be the contract itself,  *)
(* pay, flush and the getters; MaxPublished events are followed.           *)
(***************************************************************************)
PaymentTokens == {USDC_CONTRACT, TokenS}
PaymentHolders == {Alice, Bob, Mallory, Self}
Destinations == {Bob, Mallory, Self}
FlushAmounts == {-1, 0, 1, 2, 4}
PayAmounts == {0, 1, 3}

\* What the contract holds of a token at its deployment.
SentByMistake(token) == IF token = USDC_CONTRACT THEN 2 ELSE 3

InitPayment ==
    /\ PaymentDeployed
    /\ owner = NoAddr
    /\ fee_recipient = NoAddr
    /\ chain_id = 0
    /\ protocol_fee = 0
    /\ rozo_relayer = NoAddr
    /\ rozo_threshold = 0
    /\ relayer_type = [a \in RelayerAddrs |-> "None"]
    /\ messenger_adapter = [m \in MessengerIds |-> NoAddr]
    /\ trusted_contract = [n \in ChainNames |-> NoName]
    /\ chain_name = [c \in ChainIds |-> NoName]
    /\ intents = <<>>
    /\ fill_records = <<>>
    /\ accumulated_fees = [t \in Tokens |-> 0]
    /\ outbound = <<>>
    /\ events = NoEvents
    /\ now = 0
    /\ balance = [p \in PaymentTokens \X PaymentHolders |->
                     IF p[2] = Self THEN SentByMistake(p[1])
                     ELSE IF p = <<USDC_CONTRACT, Alice>> THEN 2 ELSE 0]
    /\ called = "deploy"
    /\ result = "Ok"

InitStep == \E destination \in Destinations : init(destination)

PayStep ==
    /\ Len(published) < MaxPublished
    /\ \E amount \in PayAmounts : pay(Alice, amount, "memo")

FlushStep ==
    /\ Len(published) < MaxPublished
    /\ \E token_contract \in PaymentTokens, amount \in FlushAmounts :
          flush(token_contract, amount)

NextPayment ==
    \/ InitStep
    \/ PayStep
    \/ FlushStep
    \/ get_destination
    \/ get_usdc

SpecPayment == InitPayment /\ [][NextPayment]_vars

(***************************************************************************)
(* SpecOverride: two intents of the same token and the owner's overrides.  *)
(* Alice creates intents 1 and 2, adapter 0 delivers faithful              *)
(* notifications, and the owner refunds an intent, puts an intent back to  *)
(* Pending and reassigns its relayer.                                      *)
(***************************************************************************)
OverrideIds == {1, 2}

InitOverride ==
    /\ owner = OwnerAddr
    /\ fee_recipient = FeeRcpt
    /\ chain_id = 1500
    /\ protocol_fee = 3
    /\ rozo_relayer = NoAddr
    /\ rozo_threshold = 0
    /\ relayer_type = [a \in RelayerAddrs |-> "None"]
    /\ messenger_adapter = [m \in MessengerIds |-> IF m = 0 THEN Adapter0 ELSE NoAddr]
    /\ trusted_contract = [n \in ChainNames |-> NoName]
    /\ chain_name = [c \in ChainIds |-> NoName]
    /\ intents = <<>>
    /\ fill_records = <<>>
    /\ accumulated_fees = [t \in Tokens |-> 0]
    /\ outbound = <<>>
    /\ balance = [p \in Tokens \X Holders |->
                     IF p = <<TokenS, Alice>> THEN 10000 ELSE 0]
    /\ events = [i \in OverrideIds |-> [filled |-> 0, refunded |-> 0, failed |-> <<>>]]
    /\ now = 0
    /\ called = "deploy"
    /\ result = "Ok"
    /\ PaymentDeployed

OverrideCreateStep ==
    \E intent_id \in OverrideIds :
        create_intent(Alice, intent_id, TokenS, SourceAmount, 8453, TokenD.key,
                      Receiver.key, DestinationAmount, 2, Alice, ZERO_BYTES32)

OverrideNotifyStep ==
    \E intent_id \in OverrideIds : notify(Adapter0, 0, GoodPayload(intent_id))

OverrideAdminStep ==
    \E intent_id \in OverrideIds :
        \/ admin_refund(OwnerAddr, intent_id)
        \/ set_intent_status(OwnerAddr, intent_id, "Pending")
        \/ set_intent_relayer(OwnerAddr, intent_id, RelayerR.key)

NextOverride ==
    \/ OverrideCreateStep
    \/ OverrideNotifyStep
    \/ OverrideAdminStep

SpecOverride == InitOverride /\ [][NextOverride]_vars

(***************************************************************************)
(* SpecClock: one contract that is both ends of its intents, so that the   *)
(* deadline of a stored intent and the deadline of the IntentData a        *)
(* relayer fills from are read against the same ledger time.  Alice        *)
(* creates intents whose destination chain is the contract's own, open or  *)
(* assigned to RelayerR; relayers and Mallory fill from the snapshot of a  *)
(* stored intent or from one altered in its destination chain; Alice, Bob  *)
(* and Mallory ask for refunds.                                            *)
(***************************************************************************)
InitClock ==
    /\ owner = OwnerAddr
    /\ fee_recipient = FeeRcpt
    /\ chain_id = 1500
    /\ protocol_fee = 3
    /\ rozo_relayer = NoAddr
    /\ rozo_threshold = 0
    /\ relayer_type = [a \in RelayerAddrs |->
                          IF a = RelayerR THEN "External"
                          ELSE IF a = RelayerF THEN "Rozo" ELSE "None"]
    /\ messenger_adapter = [m \in MessengerIds |-> IF m = 0 THEN Adapter0 ELSE NoAddr]
    /\ trusted_contract = [n \in ChainNames |->
                              IF n = "stellar" THEN "0x456" ELSE NoName]
    /\ chain_name = [c \in ChainIds |-> IF c = 1500 THEN "stellar" ELSE NoName]
    /\ intents = <<>>
    /\ fill_records = <<>>
    /\ accumulated_fees = [t \in Tokens |-> 0]
    /\ outbound = <<>>
    /\ balance = [p \in Tokens \X Holders |->
                     IF p = <<TokenS, Alice>> THEN 10000
                     ELSE IF p[1] = TokenD /\ p[2] \in {RelayerR, RelayerF}
                          THEN 2 * DestinationAmount
                     ELSE 0]
    /\ events = NoEvents
    /\ now = 0
    /\ called = "initialize"
    /\ result = "Ok"
    /\ PaymentDeployed

\* <<deadline, relayer>>
ClockCreates ==
    {<<1, ZERO_BYTES32>>, <<2, ZERO_BYTES32>>, <<2, address_to_bytes32(RelayerR)>>}

ClockCreateStep ==
    \E intent_id \in IntentIds, a \in ClockCreates :
        create_intent(Alice, intent_id, TokenS, SourceAmount, 1500, TokenD.key,
                      Receiver.key, DestinationAmount, a[1], Bob, a[2])

\* The IntentData of a stored intent as the destination receives it, and the
\* same sent to a contract of another chain id.
ClockData ==
    UNION { { Snapshot(intents[intent_id]),
              [Snapshot(intents[intent_id]) EXCEPT !.destination_chain_id = 8453] } :
            intent_id \in DOMAIN intents }

\* <<relayer, intent_data, repayment_address, messenger_id>>
ClockFillCalls == RelayerAddrs \X ClockData \X {Ctr(5).key} \X {0}

ClockFillStep ==
    \E call \in ClockFillCalls : fill_and_notify(call[1], call[2], call[3], call[4])

NextClock ==
    \/ ClockCreateStep
    \/ ClockFillStep
    \/ RefundStep
    \/ Tick

SpecClock == InitClock /\ [][NextClock]_vars

(***************************************************************************)
(* SpecAdminRefund: SpecRescue with the owner asking for the refund of an  *)
(* id that was never stored as well.                                       *)
(***************************************************************************)
AdminRefundIds == IntentIds \cup {UnknownIntent}

AdminRefundAnyStep ==
    \E intent_id \in AdminRefundIds : admin_refund(OwnerAddr, intent_id)

NextAdminRefund ==
    \/ EscrowCreateStep
    \/ RefundStep
    \/ EscrowNotifyStep
    \/ AdminRefundAnyStep
    \/ Tick

SpecAdminRefund == InitLifecycle /\ [][NextAdminRefund]_vars

(***************************************************************************)
(* Properties of the lifecycle (SpecLifecycle).                            *)
(***************************************************************************)
RefundCallers == {Alice, Bob, Mallory}

\* A notify call that passes the adapter check and carries 160 bytes.
Delivered(caller, messenger_id, message_data) ==
    /\ messenger_adapter[messenger_id] # NoAddr
    /\ caller = messenger_adapter[messenger_id]
    /\ BytesLen(message_data) = 160

IsPending(intent_id) ==
    intent_id \in DOMAIN intents /\ intents[intent_id].status = "Pending"

\* The hash of the stored intent, as a relayer filling it faithfully computes it.
StoredHash(intent_id) == compute_fill_hash(Snapshot(intents[intent_id]))

\* A notification for intent_id carrying the stored intent's hash and
\* reporting `paid`.
ReportsPaid(message_data, intent_id, paid) ==
    message_data = encode_notify_payload(intent_id, StoredHash(intent_id),
                                         message_data.words[3],
                                         message_data.words[4], paid)

ReportedAmounts == (DestinationAmount - 1)..(DestinationAmount + 1)

\* C1: every intent starts Pending and its status changes at most once:
\* Pending -> Refunded only by refund, Pending -> Filled or Failed only by
\* notify; a Filled, Failed or Refunded intent keeps its status in every step
\* of create_intent, refund and notify.
C1_StatusChangesOnce ==
    [][\A id \in IntentIds :
          /\ (id \notin DOMAIN intents /\ id \in DOMAIN intents')
                => intents'[id].status = "Pending"
          /\ id \in DOMAIN intents =>
                /\ id \in DOMAIN intents'
                /\ \/ intents'[id].status = intents[id].status
                   \/ /\ intents[id].status = "Pending"
                      /\ intents'[id].status = "Refunded"
                      /\ \E caller \in RefundCallers : refund(caller, id)
                   \/ /\ intents[id].status = "Pending"
                      /\ intents'[id].status \in {"Filled", "Failed"}
                      /\ \E call \in NotifyCalls :
                            notify(call[1], call[2], Payload(call[3], id))
      ]_vars

\* A Failed intent whose refund after the deadline was turned down.
C1_Witness ==
    \E id \in DOMAIN intents :
        /\ intents[id].status = "Failed"
        /\ now >= intents[id].deadline
        /\ called = "refund"
        /\ result = "InvalidStatus"

\* C3: notify with no adapter registered for messenger_id returns
\* InvalidMessenger, with a caller that is not the registered adapter it
\* returns NotMessenger, and in both cases intents, fee totals and balances are
\* unchanged; an intent changes only when the caller is the registered adapter.
C3_NotifyOnlyByAdapter ==
    [][called' = "notify" =>
          \A id \in IntentIds : \A call \in NotifyCalls :
             notify(call[1], call[2], Payload(call[3], id)) =>
                /\ messenger_adapter[call[2]] = NoAddr =>
                      /\ result' = "InvalidMessenger"
                      /\ UNCHANGED <<intents, accumulated_fees, balance>>
                /\ (messenger_adapter[call[2]] # NoAddr
                       /\ call[1] # messenger_adapter[call[2]]) =>
                      /\ result' = "NotMessenger"
                      /\ UNCHANGED <<intents, accumulated_fees, balance>>
                /\ intents' # intents => call[1] = messenger_adapter[call[2]]
      ]_vars

\* A notification for a Pending intent was turned down with NotMessenger.
C3_Witness ==
    /\ called = "notify"
    /\ result = "NotMessenger"
    /\ \E id \in IntentIds : IsPending(id)

\* C4: a delivered notification for a Pending intent whose claimed hash
\* differs from the hash of the stored intent returns Ok, makes the intent
\* Failed, moves no tokens and leaves the accumulated fees alone.
C4_HashMismatchFails ==
    [][called' = "notify" =>
          \A id \in IntentIds : \A call \in NotifyCalls :
             LET message_data == Payload(call[3], id)
             IN  ( /\ IsPending(id)
                   /\ Delivered(call[1], call[2], message_data)
                   /\ message_data.words[1] = id
                   /\ message_data.words[2] # StoredHash(id)
                   /\ notify(call[1], call[2], message_data) )
                 => /\ result' = "Ok"
                    /\ intents'[id].status = "Failed"
                    /\ balance' = balance
                    /\ accumulated_fees' = accumulated_fees
      ]_vars

\* An intent is Failed after a notification whose hash was not the expected
\* one; its escrow is still in the contract.
C4_Witness ==
    \E id \in DOMAIN intents :
        /\ intents[id].status = "Failed"
        /\ called = "notify"
        /\ result = "Ok"
        /\ Len(events[id].failed) = 1
        /\ events[id].failed[1][1] # events[id].failed[1][2]
        /\ balance[<<TokenS, Self>>] >= intents[id].source_amount

\* C5: a delivered notification for a Pending intent with the stored intent's
\* hash returns Ok; when it reports less than destination_amount the intent
\* becomes Failed, no tokens move and no fee is added; when it reports
\* destination_amount or more the intent does not become Failed.
C5_UnderpaymentFails ==
    [][called' = "notify" =>
          \A id \in IntentIds : \A call \in NotifyCalls : \A paid \in ReportedAmounts :
             LET message_data == Payload(call[3], id)
             IN  ( /\ IsPending(id)
                   /\ Delivered(call[1], call[2], message_data)
                   /\ ReportsPaid(message_data, id, paid)
                   /\ notify(call[1], call[2], message_data) )
                 => /\ result' = "Ok"
                    /\ paid < intents[id].destination_amount =>
                          /\ intents'[id].status = "Failed"
                          /\ balance' = balance
                          /\ accumulated_fees' = accumulated_fees
                    /\ paid >= intents[id].destination_amount =>
                          intents'[id].status = "Filled"
      ]_vars

\* An intent is Failed after a notification with the expected hash.
C5_Witness ==
    \E id \in DOMAIN intents :
        /\ intents[id].status = "Failed"
        /\ called = "notify"
        /\ result = "Ok"
        /\ Len(events[id].failed) = 1
        /\ events[id].failed[1][1] = events[id].failed[1][2]

\* C6: a delivered notification for a Pending intent with the stored intent's
\* hash and a reported amount >= destination_amount makes the intent Filled,
\* moves source_amount - fee of the source token from the contract to the
\* holder named by the payload's repayment address and adds fee to the
\* accumulated fees of that token, fee being floor(source_amount * fee_bps /
\* 10000) at the fee rate stored when notify runs.
C6_FilledPaysOut ==
    [][called' = "notify" =>
          \A id \in IntentIds : \A call \in NotifyCalls : \A paid \in ReportedAmounts :
             LET message_data == Payload(call[3], id)
                 intent == intents[id]
             IN  ( /\ IsPending(id)
                   /\ paid >= intent.destination_amount
                   /\ Delivered(call[1], call[2], message_data)
                   /\ ReportsPaid(message_data, id, paid)
                   /\ notify(call[1], call[2], message_data) )
                 => \E fee \in 0..intent.source_amount :
                       /\ fee * 10000 <= intent.source_amount * protocol_fee
                       /\ intent.source_amount * protocol_fee < (fee + 1) * 10000
                       /\ result' = "Ok"
                       /\ intents'[id].status = "Filled"
                       /\ accumulated_fees' =
                             [accumulated_fees EXCEPT ![intent.source_token] = @ + fee]
                       /\ \E payee \in Holders :
                             /\ payee.key = message_data.words[3]
                             /\ payee # Self
                             /\ balance' = Transfer(balance, intent.source_token, Self,
                                                    payee, intent.source_amount - fee)
      ]_vars

\* An intent was Filled at 30 basis points: 9 of 3333 went to the fees, 3324
\* to the relayer.
C6_Witness ==
    \E id \in DOMAIN intents :
        /\ intents[id].status = "Filled"
        /\ called = "notify"
        /\ result = "Ok"
        /\ accumulated_fees[TokenS] = 9
        /\ balance[<<TokenS, Ctr(RelayerR.key)>>] = 3324

\* What the relayers were paid plus what was credited to the fees.
PaidAndCredited ==
    balance[<<TokenS, Ctr(RelayerR.key)>>] + accumulated_fees[TokenS]

\* The source amounts of the Filled intents among ids, added up.
RECURSIVE FilledTotal(_)
FilledTotal(ids) ==
    IF ids = {} THEN 0
    ELSE LET i == CHOOSE x \in ids : TRUE
         IN  (IF intents[i].status = "Filled" THEN intents[i].source_amount ELSE 0)
                + FilledTotal(ids \ {i})

\* Every Filled intent was paid for once, and nothing else was paid.
PaidOncePerFilled ==
    /\ \A id \in IntentIds : events[id].filled <= 1
    /\ \A id \in DOMAIN intents :
          (events[id].filled = 1) <=> (intents[id].status = "Filled")
    /\ PaidAndCredited = FilledTotal(DOMAIN intents)

\* C7: a delivered notification for an id that is not stored returns
\* IntentNotFound, for an intent that is not Pending it returns InvalidStatus,
\* and neither changes anything; however often notifications are delivered,
\* each intent is paid for and credits its fee at most once.
C7_NotifyIdempotent ==
    [][/\ called' = "notify" =>
             \A id \in IntentIds : \A call \in NotifyCalls :
                LET message_data == Payload(call[3], id)
                IN  ( /\ ~IsPending(id)
                      /\ Delivered(call[1], call[2], message_data)
                      /\ message_data.words[1] = id
                      /\ notify(call[1], call[2], message_data) )
                    => /\ id \notin DOMAIN intents =>
                             /\ result' = "IntentNotFound"
                             /\ UNCHANGED <<storageVars, balance, events>>
                       /\ id \in DOMAIN intents =>
                             /\ result' = "InvalidStatus"
                             /\ UNCHANGED <<storageVars, balance, events>>
       /\ PaidOncePerFilled'
      ]_vars

\* A notification for a Filled intent was delivered again and turned down.
C7_Witness ==
    \E id \in DOMAIN intents :
        /\ intents[id].status = "Filled"
        /\ events[id].filled = 1
        /\ called = "notify"
        /\ result = "InvalidStatus"

(***************************************************************************)
(* Properties of the admin surface (SpecAdmin).                            *)
(***************************************************************************)
\* C2: an admin entry point called by an address that is not the stored
\* owner aborts and leaves storage and balances unchanged.
C2_OnlyOwnerAdministers ==
    [][\A admin \in Admins :
          (admin # owner /\ AdminCall(admin))
             => /\ result' # "Ok"
                /\ UNCHANGED <<storageVars, balance>>
      ]_vars

(***************************************************************************)
(* Properties of the destination role (SpecFill).                          *)
(***************************************************************************)
\* The destination_amount hashed into a fill hash.
HashedAmount(fill_hash) == fill_hash[10]

RECURSIVE HashedTotal(_)
HashedTotal(hashes) ==
    IF hashes = {} THEN 0
    ELSE LET h == CHOOSE x \in hashes : TRUE
         IN  HashedAmount(h) + HashedTotal(hashes \ {h})

\* The receiver holds the destination amount of every recorded fill, once.
ReceiverPaidOncePerRecord ==
    balance[<<TokenD, Receiver>>] = HashedTotal(DOMAIN fill_records)

\* The fill passes the checks fill_and_notify makes before the fill record.
PassesEarlierChecks(call) ==
    /\ relayer_type[call[1]] # "None"
    /\ call[2].destination_chain_id = chain_id
    /\ now < call[2].deadline
    /\ \/ call[2].relayer = ZERO_BYTES32
       \/ call[2].relayer = call[1].key

\* C8: a fill_and_notify for IntentData whose fill hash already has a
\* FillRecord never succeeds, fails with AlreadyFilled when it gets as far as
\* the record check, and changes no balance, no FillRecord and no outbound
\* message; a stored FillRecord is never replaced, and the receiver holds the
\* destination amount of each recorded hash exactly once.
C8_DoubleFillGuard ==
    [][/\ \A call \in FillCalls :
             (/\ fill_and_notify(call[1], call[2], call[3], call[4])
              /\ compute_fill_hash(call[2]) \in DOMAIN fill_records)
                => /\ result' # "Ok"
                   /\ PassesEarlierChecks(call) => result' = "AlreadyFilled"
                   /\ UNCHANGED <<fill_records, balance, outbound>>
       /\ \A h \in DOMAIN fill_records :
             h \in DOMAIN fill_records' /\ fill_records'[h] = fill_records[h]
       /\ ReceiverPaidOncePerRecord'
      ]_vars

\* A second relayer was refused the hash the first one filled.
C8_Witness ==
    /\ called = "fill_and_notify"
    /\ result = "AlreadyFilled"
    /\ compute_fill_hash(OpenData) \in DOMAIN fill_records
    /\ fill_records[compute_fill_hash(OpenData)].relayer = RelayerR
    /\ balance[<<TokenD, RelayerF>>] = DestinationAmount
    /\ balance[<<TokenD, Receiver>>] = DestinationAmount

\* The fill hash carried by an outbound message.
CarriedHash(message) == message.payload.words[2]

\* Messages dispatched for one fill hash are the same bytes, to the same place.
OnePayloadPerHash ==
    \A i, j \in 1..Len(outbound) :
        CarriedHash(outbound[i]) = CarriedHash(outbound[j])
           => outbound[i] = outbound[j]

\* C9: every message a successful retry_notify dispatches is byte-identical
\* to the one the original fill_and_notify dispatched for that IntentData,
\* whatever the messenger id; a retry_notify moves no tokens and leaves the
\* fill records as they are.
C9_RetryResendsSamePayload ==
    [][/\ OnePayloadPerHash'
       /\ \A call \in RetryCalls :
             retry_notify(call[1], call[2], call[3])
                => /\ UNCHANGED <<balance, fill_records>>
                   /\ result' = "Ok"
                         => /\ Len(outbound') = Len(outbound) + 1
                            /\ CarriedHash(outbound'[Len(outbound')])
                                  = compute_fill_hash(call[2])
                            /\ \E i \in 1..Len(outbound) :
                                  outbound[i] = outbound'[Len(outbound')]
      ]_vars

\* A retry went out after a fill whose repayment address is not the filler's.
C9_Witness ==
    /\ called = "retry_notify"
    /\ result = "Ok"
    /\ Len(outbound) >= 2
    /\ outbound[Len(outbound)] = outbound[1]
    /\ outbound[1].payload.words[3] # outbound[1].payload.words[4]

\* C10: retry_notify fails with IntentNotFound when the fill hash has no
\* FillRecord, with NotAssignedRelayer when it has one whose relayer is not
\* the caller, and with InvalidMessenger when the caller is the recorded
\* relayer and the messenger id has no adapter; it succeeds only for the
\* recorded relayer, and a failed retry dispatches nothing.
C10_RetryOnlyByFiller ==
    [][\A call \in RetryCalls :
          retry_notify(call[1], call[2], call[3])
             => LET h == compute_fill_hash(call[2])
                IN  /\ h \notin DOMAIN fill_records => result' = "IntentNotFound"
                    /\ (h \in DOMAIN fill_records /\ fill_records[h].relayer # call[1])
                          => result' = "NotAssignedRelayer"
                    /\ (/\ h \in DOMAIN fill_records
                        /\ fill_records[h].relayer = call[1]
                        /\ messenger_adapter[call[3]] = NoAddr)
                          => result' = "InvalidMessenger"
                    /\ result' = "Ok"
                          => h \in DOMAIN fill_records /\ fill_records[h].relayer = call[1]
                    /\ result' # "Ok" => UNCHANGED outbound
      ]_vars

\* A registered relayer that did not make the fill was refused the retry.
C10_Witness ==
    /\ called = "retry_notify"
    /\ result = "NotAssignedRelayer"
    /\ compute_fill_hash(OpenData) \in DOMAIN fill_records
    /\ fill_records[compute_fill_hash(OpenData)].relayer = RelayerR
    /\ Len(outbound) = 1

(***************************************************************************)
(* Properties of the relayer authorization (SpecFallback).                 *)
(***************************************************************************)
\* The fill gets as far as the relayer-authorization step.
ReachesAuthorization(call) ==
    /\ relayer_type[call[1]] # "None"
    /\ call[2].destination_chain_id = chain_id
    /\ now < call[2].deadline

\* The fallback branch: the caller is the configured fallback relayer, the
\* threshold is not zero and has elapsed since created_at.
FallbackOpen(call) ==
    /\ rozo_relayer # NoAddr
    /\ call[1] = rozo_relayer
    /\ rozo_threshold # 0
    /\ now >= call[2].created_at + rozo_threshold

Authorized(call) ==
    \/ call[2].relayer = ZERO_BYTES32
    \/ call[2].relayer = call[1].key
    \/ FallbackOpen(call)

\* C11: a fill_and_notify by a whitelisted relayer that reaches the
\* authorization step passes it exactly when the order is unassigned, or
\* assigned to the caller's 32-byte address, or the caller is the configured
\* fallback relayer, the threshold is not zero and now >= created_at +
\* threshold; otherwise it returns NotAssignedRelayer and changes nothing.
\* With a threshold of 0 or no fallback relayer an order assigned to someone
\* else is always refused.
C11_RelayerAuthorization ==
    [][called' = "fill_and_notify" =>
          \A call \in FallbackCalls :
             (ReachesAuthorization(call)
                 /\ fill_and_notify(call[1], call[2], call[3], call[4]))
             => /\ ~Authorized(call) =>
                      /\ result' = "NotAssignedRelayer"
                      /\ UNCHANGED <<storageVars, balance, events>>
                /\ Authorized(call) => result' # "NotAssignedRelayer"
                /\ (/\ call[2].relayer \notin {ZERO_BYTES32, call[1].key}
                    /\ (rozo_threshold = 0 \/ rozo_relayer = NoAddr))
                      => result' = "NotAssignedRelayer"
      ]_vars

\* The configured fallback relayer was refused an order assigned to RelayerR
\* because the threshold is 0, long after the order was created.
C11_Witness ==
    /\ called = "fill_and_notify"
    /\ result = "NotAssignedRelayer"
    /\ rozo_relayer = RelayerF
    /\ rozo_threshold = 0
    /\ relayer_type[Mallory] = "None"
    /\ now = 2

\* The fill attempts of the fallback relayer RelayerF on orders assigned to
\* RelayerR.
FallbackAttempts ==
    {call \in FallbackCalls :
        call[1] = RelayerF /\ call[2].relayer = address_to_bytes32(RelayerR)}

\* Nothing but the authorization stands in the way of the fill: it is made
\* before the deadline, the hash is not filled and the caller holds the amount.
OtherwiseValid(call) ==
    /\ ReachesAuthorization(call)
    /\ compute_fill_hash(call[2]) \notin DOMAIN fill_records
    /\ balance[<<TokenD, call[1]>>] >= call[2].destination_amount

FallbackCanFill(intent_data) ==
    \E repayment_address \in {Ctr(5).key, Ctr(6).key}, messenger_id \in MessengerIds :
        fill_and_notify_result(RelayerF, intent_data, repayment_address,
                               messenger_id) = "Ok"

\* The threshold elapses before the order's deadline.
OpensBeforeDeadline(intent_data) ==
    intent_data.created_at + rozo_threshold < intent_data.deadline

\* C13 as stated: for every order assigned to a relayer that never fills it,
\* with a fallback relayer and a non-zero threshold configured, a ledger time
\* comes at which the fallback relayer's fill_and_notify succeeds.
C13_FallbackEventuallyFills ==
    \A intent_data \in StuckOrders : <>FallbackCanFill(intent_data)

\* C13, amended: the fallback relayer's fill_and_notify comes to succeed when
\* created_at + threshold is before the order's deadline; when it is not, the
\* fallback relayer's fill never succeeds (NotAssignedRelayer until the
\* threshold has elapsed, IntentExpired from the deadline on).
C13_FallbackFillsBeforeDeadline ==
    \A intent_data \in StuckOrders :
        /\ OpensBeforeDeadline(intent_data) => <>FallbackCanFill(intent_data)
        /\ [](~OpensBeforeDeadline(intent_data) => ~FallbackCanFill(intent_data))

\* RelayerF filled the stuck order once the threshold of 1 had elapsed.
C13_Witness ==
    /\ called = "fill_and_notify"
    /\ result = "Ok"
    /\ rozo_threshold = 1
    /\ now = 1
    /\ compute_fill_hash(AssignedData) \in DOMAIN fill_records
    /\ fill_records[compute_fill_hash(AssignedData)].relayer = RelayerF

(***************************************************************************)
(* The relayer whitelist (SpecFallback).                                   *)
(***************************************************************************)
\* C14: fill_and_notify by an address whose relayer type is None returns
\* NotRelayer whatever its other arguments, writes no FillRecord, moves no
\* tokens and sends nothing; add_relayer with type None is refused; a relayer
\* type changes only by a successful add_relayer, to a type that is not None,
\* or by a successful remove_relayer, to None.
C14_OnlyWhitelistedFill ==
    [][/\ called' = "fill_and_notify" =>
             \A call \in FallbackCalls :
                (relayer_type[call[1]] = "None"
                    /\ fill_and_notify(call[1], call[2], call[3], call[4]))
                => /\ result' = "NotRelayer"
                   /\ UNCHANGED <<fill_records, balance, outbound>>
       /\ \A new_type \in {"External", "Rozo", "None"} :
             (called' = "add_relayer" /\ add_relayer(OwnerAddr, Mallory, new_type))
             => IF new_type = "None"
                THEN result' # "Ok" /\ relayer_type' = relayer_type
                ELSE result' = "Ok" /\ relayer_type'[Mallory] = new_type
       /\ (called' = "remove_relayer" /\ remove_relayer(OwnerAddr, Mallory))
             => result' = "Ok" /\ relayer_type'[Mallory] = "None"
       /\ \A a \in RelayerAddrs :
             relayer_type'[a] # relayer_type[a]
             => /\ result' = "Ok"
                /\ \/ called' = "add_relayer" /\ relayer_type'[a] # "None"
                   \/ called' = "remove_relayer" /\ relayer_type'[a] = "None"
      ]_vars

\* Mallory filled an order while she was whitelisted, was removed, and was
\* then refused.
C14_Witness ==
    /\ called = "fill_and_notify"
    /\ result = "NotRelayer"
    /\ relayer_type[Mallory] = "None"
    /\ \E h \in DOMAIN fill_records : fill_records[h].relayer = Mallory

(***************************************************************************)
(* Creation and refund of the escrow (SpecEscrow).                         *)
(***************************************************************************)
\* The conditions under which the code lets caller refund intent_id.
MayRefund(caller, intent_id) ==
    /\ IsPending(intent_id)
    /\ now >= intents[intent_id].deadline
    /\ caller \in {intents[intent_id].sender, intents[intent_id].refund_address}

RECURSIVE NotReturned(_)
NotReturned(ids) ==
    IF ids = {} THEN 0
    ELSE LET i == CHOOSE x \in ids : TRUE
         IN  (IF intents[i].status = "Refunded"
                    /\ intents[i].refund_address = intents[i].sender
              THEN 0 ELSE intents[i].source_amount)
                + NotReturned(ids \ {i})

SenderStake == balance[<<TokenS, Alice>>] + NotReturned(DOMAIN intents)

\* A refund of intent_id that succeeded: the intent is Refunded, and the only
\* tokens moved are the whole source_amount, from the contract to the refund
\* address, with no fee credited.
RefundedInFull(intent_id) ==
    /\ intents'[intent_id].status = "Refunded"
    /\ balance' = Transfer(balance, intents[intent_id].source_token, Self,
                           intents[intent_id].refund_address,
                           intents[intent_id].source_amount)
    /\ accumulated_fees' = accumulated_fees

\* C16 as stated: a successful refund sets Refunded and pays the full
\* source_amount to the refund address, and a refund called by the sender
\* gives the sender the source_amount back.
C16_RefundRestoresSender ==
    [][(called' = "refund" /\ result' = "Ok") =>
          \A caller \in RefundCallers, id \in IntentIds :
             refund(caller, id) =>
                /\ RefundedInFull(id)
                /\ caller = intents[id].sender =>
                      balance'[<<TokenS, caller>>]
                         = balance[<<TokenS, caller>>] + intents[id].source_amount
      ]_vars

\* C16: a successful refund sets Refunded and pays the full source_amount to
\* the refund address with no fee; what the sender holds plus what is out in
\* intents not refunded to the sender never changes, so a refund restores the
\* sender's balance to its value before create_intent exactly when the refund
\* address is the sender.
C16_RefundPaysRefundAddress ==
    [][/\ (called' = "refund" /\ result' = "Ok") =>
             \A caller \in RefundCallers, id \in IntentIds :
                refund(caller, id) =>
                   /\ RefundedInFull(id)
                   /\ intents[id].refund_address # intents[id].sender =>
                         balance'[<<TokenS, intents[id].sender>>]
                            = balance[<<TokenS, intents[id].sender>>]
       /\ SenderStake' = SenderStake
      ]_vars

\* The sender refunded an intent whose refund address is Bob: Bob holds the
\* source_amount.
C16_Witness ==
    /\ called = "refund"
    /\ result = "Ok"
    /\ \E id \in DOMAIN intents :
          /\ intents[id].status = "Refunded"
          /\ intents[id].refund_address = Bob
    /\ balance[<<TokenS, Bob>>] = SourceAmount

\* The arguments of a creation pass the amount and deadline checks.
ValidCreate(a) == a[1] > 0 /\ a[2] > 0 /\ a[3] > now

\* C17: create_intent returns InvalidAmount when source_amount <= 0 or
\* destination_amount <= 0, InvalidDeadline when the amounts are positive and
\* deadline <= now, IntentAlreadyExists when amounts and deadline pass and
\* the id is stored; a creation that fails writes no intent and moves no
\* tokens.
C17_CreateRefusals ==
    [][called' = "create_intent" =>
          \A id \in IntentIds, a \in EscrowCreates :
             EscrowCreate(id, a) =>
                /\ (a[1] <= 0 \/ a[2] <= 0) => result' = "InvalidAmount"
                /\ (a[1] > 0 /\ a[2] > 0 /\ a[3] <= now) => result' = "InvalidDeadline"
                /\ (ValidCreate(a) /\ id \in DOMAIN intents)
                      => result' = "IntentAlreadyExists"
                /\ result' # "Ok" => UNCHANGED <<intents, balance, accumulated_fees>>
      ]_vars

\* At time 1 a creation was refused for its deadline: of the deadlines tried,
\* only the one equal to the ledger time can have been.
C17_Witness ==
    /\ called = "create_intent"
    /\ result = "InvalidDeadline"
    /\ now = 1
    /\ intents = <<>>

\* C18: an id that is stored stays stored, and a create_intent with a stored
\* id never succeeds, whatever the status of the stored intent; with valid
\* amounts and deadline it returns IntentAlreadyExists; the stored intents and
\* all balances are unchanged by it.
C18_CreatedAtMostOnce ==
    [][/\ DOMAIN intents \subseteq DOMAIN intents'
       /\ called' = "create_intent" =>
             \A id \in DOMAIN intents, a \in EscrowCreates :
                EscrowCreate(id, a) =>
                   /\ result' # "Ok"
                   /\ ValidCreate(a) => result' = "IntentAlreadyExists"
                   /\ UNCHANGED <<intents, balance, accumulated_fees>>
      ]_vars

\* The id of a Refunded intent was refused.
C18_Witness ==
    /\ called = "create_intent"
    /\ result = "IntentAlreadyExists"
    /\ \E id \in DOMAIN intents : intents[id].status = "Refunded"

\* The escrow of the Pending intents.
RECURSIVE PendingTotal(_)
PendingTotal(ids) ==
    IF ids = {} THEN 0
    ELSE LET i == CHOOSE x \in ids : TRUE
         IN  (IF intents[i].status = "Pending" THEN intents[i].source_amount ELSE 0)
                + PendingTotal(ids \ {i})

\* The contract holds the escrow of every Pending intent.
EscrowHeld == PendingTotal(DOMAIN intents) <= balance[<<TokenS, Self>>]

\* The record create_intent stores for the arguments a.
Created(intent_id, a) ==
    [intent_id |-> intent_id,
     sender |-> Alice,
     refund_address |-> a[4],
     source_token |-> TokenS,
     source_amount |-> a[1],
     destination_chain_id |-> 8453,
     destination_token |-> TokenD.key,
     receiver |-> Receiver.key,
     destination_amount |-> a[2],
     deadline |-> a[3],
     created_at |-> now,
     status |-> "Pending",
     relayer |-> a[5]]

\* C19: a successful create_intent moves exactly source_amount of source_token
\* from the sender to the contract and stores the intent with status Pending,
\* created_at = now, the given relayer and every other field as passed; an
\* intent appears only in such a step, and the contract always holds the
\* escrow of every Pending intent.
C19_CreateEscrows ==
    [][/\ (called' = "create_intent" /\ result' = "Ok") =>
             \A id \in IntentIds, a \in EscrowCreates :
                EscrowCreate(id, a) =>
                   /\ balance' = Transfer(balance, TokenS, Alice, Self, a[1])
                   /\ intents' = set_intent(intents, id, Created(id, a))
                   /\ id \notin DOMAIN intents
       /\ \A id \in DOMAIN intents' \ DOMAIN intents :
             /\ called' = "create_intent"
             /\ result' = "Ok"
             /\ balance'[<<TokenS, Self>>]
                   = balance[<<TokenS, Self>>] + intents'[id].source_amount
             /\ balance'[<<TokenS, Alice>>]
                   = balance[<<TokenS, Alice>>] - intents'[id].source_amount
       /\ EscrowHeld'
      ]_vars

\* An intent created at time 1 with no assigned relayer, its escrow held.
C19_Witness ==
    /\ called = "create_intent"
    /\ result = "Ok"
    /\ now = 1
    /\ \E id \in DOMAIN intents :
          /\ intents[id].status = "Pending"
          /\ intents[id].created_at = 1
          /\ intents[id].relayer = ZERO_BYTES32
          /\ balance[<<TokenS, Self>>] >= intents[id].source_amount

\* The fields of an intent other than status and relayer.
Terms(intent) ==
    <<intent.intent_id, intent.sender, intent.refund_address, intent.source_token,
      intent.source_amount, intent.destination_chain_id, intent.destination_token,
      intent.receiver, intent.destination_amount, intent.deadline,
      intent.created_at>>

\* C20: a stored intent keeps intent_id, sender, refund_address, source_token,
\* source_amount, destination_chain_id, destination_token, receiver,
\* destination_amount, deadline and created_at in every step; its relayer
\* changes only in a successful set_intent_relayer, and set_intent_relayer
\* changes no status and moves no tokens.
C20_TermsImmutable ==
    [][\A id \in DOMAIN intents :
          /\ id \in DOMAIN intents'
          /\ Terms(intents'[id]) = Terms(intents[id])
          /\ intents[id].intent_id = id
          /\ intents'[id].relayer # intents[id].relayer
                => called' = "set_intent_relayer" /\ result' = "Ok"
          /\ called' = "set_intent_relayer"
                => /\ intents'[id].status = intents[id].status
                   /\ UNCHANGED <<balance, accumulated_fees>>
      ]_vars

\* The owner gave a Filled intent a relayer that no creation passed.
C20_Witness ==
    /\ called = "set_intent_relayer"
    /\ result = "Ok"
    /\ \E id \in DOMAIN intents :
          /\ intents[id].relayer = RelayerF.key
          /\ intents[id].status = "Filled"
          /\ intents[id].source_amount = SourceAmount

(***************************************************************************)
(* The fill records among all operations (SpecRecords).                    *)
(***************************************************************************)
\* C21: a stored FillRecord stays stored with the same relayer and the same
\* repayment_address in every step of fill_and_notify, retry_notify, notify
\* and the owner's calls; a record appears only in a successful
\* fill_and_notify, holding the caller and the repayment address passed.
C21_FillRecordsPermanent ==
    [][/\ \A h \in DOMAIN fill_records :
             /\ h \in DOMAIN fill_records'
             /\ fill_records'[h].relayer = fill_records[h].relayer
             /\ fill_records'[h].repayment_address = fill_records[h].repayment_address
       /\ \A h \in DOMAIN fill_records' \ DOMAIN fill_records :
             /\ called' = "fill_and_notify"
             /\ result' = "Ok"
             /\ \E call \in RecordsFillCalls :
                   /\ h = compute_fill_hash(call[2])
                   /\ fill_and_notify(call[1], call[2], call[3], call[4])
                   /\ fill_records'[h] = [relayer |-> call[1],
                                          repayment_address |-> call[3]]
      ]_vars

\* RelayerR's record of the open order, with its repayment address, after
\* RelayerR was removed from the whitelist, a retry was sent and the stored
\* intent was finalized.
C21_Witness ==
    /\ compute_fill_hash(OpenData) \in DOMAIN fill_records
    /\ fill_records[compute_fill_hash(OpenData)]
          = [relayer |-> RelayerR, repayment_address |-> Ctr(6).key]
    /\ relayer_type[RelayerR] = "None"
    /\ Len(outbound) >= 2
    /\ intents[1].status # "Pending"

(***************************************************************************)
(* Agreement of the two sides (SpecAgree).                                 *)
(***************************************************************************)
\* C22: when the payload that fill_and_notify builds for a fill from the
\* snapshot of a stored intent (fields as stored, addresses as their 32
\* bytes, source_chain_id the contract's chain id) is delivered to notify
\* while the intent is Pending, the hash recomputed from the stored intent
\* equals the hash carried, notify returns Ok and the intent becomes Filled.
C22_FaithfulFillIsFilled ==
    [][called' = "notify" =>
          \A id \in DOMAIN intents, filler \in AgreeFillers :
             (IsPending(id) /\ AgreeDeliver(filler, Snapshot(intents[id])))
             => /\ compute_fill_hash(expected_data(intents[id]))
                      = decode_notify_payload(
                           fill_payload(filler[1], Snapshot(intents[id]),
                                        filler[2])).fill_hash
                /\ result' = "Ok"
                /\ intents'[id].status = "Filled"
                /\ events'[id].failed = events[id].failed
      ]_vars

\* An intent whose relayer the owner reassigned was filled from its snapshot
\* after its deadline and paid to contract 6.
C22_Witness ==
    /\ called = "notify"
    /\ result = "Ok"
    /\ \E id \in DOMAIN intents :
          /\ intents[id].status = "Filled"
          /\ intents[id].relayer = RelayerF.key
          /\ now >= intents[id].deadline
    /\ balance[<<TokenS, Ctr(6)>>] > 0

(***************************************************************************)
(* The fee arithmetic (SpecFee).                                           *)
(***************************************************************************)
\* C23: when notify pays an intent out, the fee credited is
\* floor(source_amount * fee_bps / 10000), the payout is source_amount - fee,
\* fee + payout = source_amount and 0 <= fee <= source_amount, for every fee
\* rate in 0..30 and every source_amount an intent can hold.
C23_FeeIsFloor ==
    [][(called' = "notify" /\ result' = "Ok" /\ intents'[1].status = "Filled"
           /\ intents[1].status = "Pending")
          => LET source_amount == intents[1].source_amount
                 fee == accumulated_fees'[TokenS] - accumulated_fees[TokenS]
                 payout == balance[<<TokenS, Self>>] - balance'[<<TokenS, Self>>]
             IN  /\ fee * 10000 <= source_amount * protocol_fee
                 /\ source_amount * protocol_fee < (fee + 1) * 10000
                 /\ payout = source_amount - fee
                 /\ fee + payout = source_amount
                 /\ 0 <= fee /\ fee <= source_amount
      ]_vars

(***************************************************************************)
(* The fee rate and the fee total (SpecFees).                              *)
(***************************************************************************)
\* C24: the stored protocol fee is 0 until set_protocol_fee first succeeds and
\* at most 30 in every state; set_protocol_fee with fee_bps > 30 returns
\* InvalidFee and leaves the fee, with fee_bps <= 30 it stores fee_bps; no
\* other step changes the fee.
C24_FeeAtMostThirty ==
    [][/\ protocol_fee' \in 0..30
       /\ called' = "set_protocol_fee" =>
             \A fee_bps \in RequestedRates :
                set_protocol_fee(OwnerAddr, fee_bps) =>
                   IF fee_bps > 30
                   THEN result' = "InvalidFee" /\ protocol_fee' = protocol_fee
                   ELSE result' = "Ok" /\ protocol_fee' = fee_bps
       /\ protocol_fee' # protocol_fee
             => called' = "set_protocol_fee" /\ result' = "Ok"
      ]_vars

\* A rate above the cap was refused and the rate set before it is still
\* stored.
C24_Witness ==
    /\ called = "set_protocol_fee"
    /\ result = "InvalidFee"
    /\ protocol_fee = 7

\* The fee total of the source token is what the Filled intents left in the
\* contract and the fee recipient has not yet received.
FeesAccounted ==
    /\ accumulated_fees[TokenS]
          = FilledTotal(DOMAIN intents) - balance[<<TokenS, Ctr(RelayerR.key)>>]
               - balance[<<TokenS, FeeRcpt>>]
    /\ accumulated_fees[TokenD] = 0

C26_FillAllOrNothing ==
    [][called' = "fill_and_notify" =>
          \A call \in FillCalls :
             (fill_and_notify(call[1], call[2], call[3], call[4]) /\ result' # "Ok")
             => /\ UNCHANGED <<fill_records, balance, outbound, storageVars>>
                /\ result' \in {"InvalidMessenger", "ChainNotFound", "UntrustedSource"}
                      => compute_fill_hash(call[2]) \notin DOMAIN fill_records'
                /\ result' = "InvalidMessenger"
                      => fill_and_notify_result(call[1], call[2], call[3], 0)' = "Ok"
      ]_vars

\* A fill stopped at the messenger lookup with nothing recorded, paid or sent.
C26_Witness ==
    /\ called = "fill_and_notify"
    /\ result = "InvalidMessenger"
    /\ fill_records = <<>>
    /\ balance[<<TokenD, Receiver>>] = 0
    /\ balance[<<TokenD, RelayerR>>] = 4 * DestinationAmount
    /\ outbound = <<>>

(***************************************************************************)
(* Failed intents (SpecEscrow).                                            *)
(***************************************************************************)
IsFailed(intent_id) ==
    intent_id \in DOMAIN intents /\ intents[intent_id].status = "Failed"

\* The escrow of the intents that are Pending or Failed.
RECURSIVE UnsettledTotal(_)
UnsettledTotal(ids) ==
    IF ids = {} THEN 0
    ELSE LET i == CHOOSE x \in ids : TRUE
         IN  (IF intents[i].status \in {"Pending", "Failed"}
              THEN intents[i].source_amount ELSE 0)
                + UnsettledTotal(ids \ {i})

UnsettledHeld == UnsettledTotal(DOMAIN intents) <= balance[<<TokenS, Self>>]

\* C27: a Failed intent stays Failed in every step of create_intent, refund,
\* notify and set_intent_relayer; a refund of it by its sender or refund
\* address returns InvalidStatus, also after the deadline, and every delivered
\* notification for it, the faithful one included, returns InvalidStatus; the
\* contract keeps holding its source_amount.
C27_FailedIsFinal ==
    [][/\ \A id \in IntentIds :
             IsFailed(id) =>
                /\ intents'[id].status = "Failed"
                /\ \A caller \in RefundCallers :
                      (called' = "refund" /\ refund(caller, id))
                      => result' = "InvalidStatus" /\ balance' = balance
                /\ \A kind \in EscrowNotifyKinds :
                      (called' = "notify" /\ notify(Adapter0, 0, Payload(kind, id)))
                      => /\ result' = "InvalidStatus"
                         /\ UNCHANGED <<balance, accumulated_fees, events>>
       /\ UnsettledHeld'
      ]_vars

\* The faithful notification for a Failed intent was refused after the
\* deadline, the escrow still in the contract.
C27_Witness ==
    /\ called = "notify"
    /\ result = "InvalidStatus"
    /\ \E id \in DOMAIN intents :
          /\ intents[id].status = "Failed"
          /\ now >= intents[id].deadline
          /\ balance[<<TokenS, Self>>] >= intents[id].source_amount
          /\ events[id].filled = 0

(***************************************************************************)
(* The owner's refund (SpecRescue).                                        *)
(***************************************************************************)
\* C28: admin_refund of a Pending intent returns Ok at every ledger time,
\* before and after the deadline; the intent becomes Refunded and the only
\* tokens moved are the whole source_amount, from the contract to the
\* intent's refund_address, none to the admin; what the sender holds plus
\* what is out in intents not refunded to the sender never changes, so the
\* sender's balance is restored when the refund address is the sender.
C28_AdminRefundAnyTime ==
    [][/\ called' = "admin_refund" =>
             \A id \in IntentIds :
                (IsPending(id) /\ admin_refund(OwnerAddr, id))
                => /\ result' = "Ok"
                   /\ RefundedInFull(id)
                   /\ balance'[<<TokenS, OwnerAddr>>] = balance[<<TokenS, OwnerAddr>>]
       /\ SenderStake' = SenderStake
      ]_vars

\* The owner refunded an intent before its deadline and the sender holds all
\* her tokens again.
C28_Witness ==
    /\ called = "admin_refund"
    /\ result = "Ok"
    /\ \E id \in DOMAIN intents :
          /\ intents[id].status = "Refunded"
          /\ now < intents[id].deadline
          /\ intents[id].refund_address = Alice
    /\ balance[<<TokenS, Alice>>] = 10000
    /\ balance[<<TokenS, OwnerAddr>>] = 0

(***************************************************************************)
(* The owner's status override (SpecStatus).                               *)
(***************************************************************************)
\* The fields of an intent record other than its status.
OtherFields == {"intent_id", "sender", "refund_address", "source_token", "source_amount", "destination_chain_id", "destination_token", "receiver", "destination_amount", "deadline", "created_at", "relayer"}

\* C29: set_intent_status of a stored intent returns Ok whatever the intent's
\* status is, a terminal one included, and leaves the intent with the status
\* given and every other field as it was; for an id that is not stored it
\* returns IntentNotFound and stores nothing; in both cases no balance and no
\* fee total changes.
C29_StatusOverride ==
    [][called' = "set_intent_status" =>
          \A intent_id \in {1, UnknownIntent}, status \in IntentStatus :
             set_intent_status(OwnerAddr, intent_id, status)
             => /\ IF has_intent(intent_id)
                   THEN /\ result' = "Ok"
                        /\ DOMAIN intents' = DOMAIN intents
                        /\ intents'[intent_id].status = status
                        /\ \A f \in OtherFields :
                              intents'[intent_id][f] = intents[intent_id][f]
                        /\ \A other \in DOMAIN intents \ {intent_id} :
                              intents'[other] = intents[other]
                   ELSE /\ result' = "IntentNotFound"
                        /\ intents' = intents
                /\ balance' = balance
                /\ accumulated_fees' = accumulated_fees
      ]_vars

\* A refunded intent was put back to Pending: its escrow has left the
\* contract and stays with the sender.
C29_Witness ==
    /\ called = "set_intent_status"
    /\ result = "Ok"
    /\ intents[1].status = "Pending"
    /\ events[1].refunded = 1
    /\ balance[<<TokenS, Self>>] = 0
    /\ balance[<<TokenS, Alice>>] = 10000

(***************************************************************************)
(* The payload codec (SpecCodec).                                          *)
(***************************************************************************)
\* The field set fill_and_notify encodes for a call of RecordsFillCalls.
FillFields(call) ==
    [intent_id |-> call[2].intent_id,
     fill_hash |-> compute_fill_hash(call[2]),
     repayment_address |-> call[3],
     relayer |-> address_to_bytes32(call[1]),
     amount |-> call[2].destination_amount]

\* A 160-byte buffer that decodes to the fields of one of the fills.
DecodesToAFill(payload) ==
    /\ decode_notify_payload_ok(payload)
    /\ \E call \in RecordsFillCalls : decode_notify_payload(payload) = FillFields(call)

\* C30: the encoding of every field set, whatever the sign and size of its
\* amount, is 160 bytes long and decodes to the same five values, and notify
\* acts on it as complete_fill acts on those values; every payload queued by
\* a fill decodes to that fill's fields; a buffer of any other length is
\* refused by decode, and notify from the adapter then returns InvalidPayload
\* and changes nothing.
C30_CodecRoundTrip ==
    [][/\ \A i \in 1..Len(outbound') : DecodesToAFill(outbound'[i].payload)
       /\ called' = "notify" =>
             /\ \A f \in CodecFields :
                   /\ BytesLen(EncodeFields(f)) = 160
                   /\ decode_notify_payload_ok(EncodeFields(f))
                   /\ decode_notify_payload(EncodeFields(f)) = f
                   /\ notify(Adapter0, 0, EncodeFields(f))
                      => complete_fill(f.intent_id, f.fill_hash, f.repayment_address,
                                       f.relayer, f.amount)
             /\ \A message_data \in WrongLengthBuffers :
                   /\ ~decode_notify_payload_ok(message_data)
                   /\ notify(Adapter0, 0, message_data)
                      => /\ result' = "InvalidPayload"
                         /\ UNCHANGED <<storageVars, balance, events, now>>
      ]_vars

\* A fill has queued its payload, the stored intent was filled from an
\* encoded field set, and a buffer of the wrong length has just been refused.
C30_Witness ==
    /\ Len(outbound) >= 1
    /\ intents[1].status = "Filled"
    /\ called = "notify"
    /\ result = "InvalidPayload"

(***************************************************************************)
(* The wire format (SpecCodec).                                            *)
(***************************************************************************)
\* The buffer `payload` is 160 bytes: the four words of f in the order
\* intent_id, fill_hash, repayment_address, relayer (bytes 0..127), then 16
\* zero bytes (128..143) and the amount of f in two's complement, most
\* significant byte first (144..159).
LaidOut(payload, f) ==
    /\ BytesLen(payload) = 160
    /\ payload.words = <<f.intent_id, f.fill_hash, f.repayment_address, f.relayer>>
    /\ Len(payload.tail) = 32
    /\ \A i \in 1..16 : payload.tail[i] = 0
    /\ \A i \in 17..29 : payload.tail[i] = IF f.amount < 0 THEN 255 ELSE 0
    /\ \A i \in 30..32 : payload.tail[i] \in 0..255
    /\ payload.tail[30] * 65536 + payload.tail[31] * 256 + payload.tail[32]
          = f.amount % 2^AmountBits

\* C31: every payload encode_notify_payload builds, for the field sets of
\* CodecFields and for the fills queued in outbound, is exactly 160 bytes:
\* intent_id, fill_hash, repayment_address and relayer in that order, then the
\* amount big-endian in the last 16 bytes after 16 zero bytes.
C31_PayloadLayout ==
    /\ \A f \in CodecFields : LaidOut(EncodeFields(f), f)
    /\ \A i \in 1..Len(outbound) :
          \E call \in RecordsFillCalls : LaidOut(outbound[i].payload, FillFields(call))

\* A fill has queued its payload: the amount 100 is its last byte.
C31_Witness ==
    /\ Len(outbound) >= 1
    /\ outbound[1].payload.tail[32] = DestinationAmount
    /\ outbound[1].payload.words[1] = 1
    /\ called = "fill_and_notify"
    /\ result = "Ok"

(***************************************************************************)
(* The addresses paid (SpecEscrow).                                        *)
(***************************************************************************)
\* C32: when notify fills a Pending intent from the payload whose repayment
\* address is the canonical form of the account address RelayerR, the payout
\* is received by RelayerR.
C32_PayoutReachesAccount ==
    [][called' = "notify" =>
          \A id \in IntentIds :
             (/\ IsPending(id)
              /\ notify(Adapter0, 0,
                        fill_payload(RelayerR, FilledData(id), address_to_bytes32(RelayerR)))
              /\ intents'[id].status = "Filled")
             => balance'[<<TokenS, RelayerR>>]
                   = balance[<<TokenS, RelayerR>>]
                     + relayer_payout(intents[id].source_amount, protocol_fee)
      ]_vars

(***************************************************************************)
(* initialize (SpecInit).                                                  *)
(***************************************************************************)
\* C33: initialize returns Ok on the contract that has no owner stored and
\* stores its three arguments; once an owner is stored it stays stored, and
\* every initialize from then on, whatever its arguments, returns
\* AlreadyInitialized and leaves owner, fee recipient and chain id as they
\* were.
C33_InitializeOnce ==
    [][/\ has_owner => has_owner'
       /\ called' = "initialize" =>
             \A a \in InitializeArgs :
                initialize(a[1], a[2], a[3])
                => IF has_owner
                   THEN /\ result' = "AlreadyInitialized"
                        /\ UNCHANGED <<owner, fee_recipient, chain_id>>
                   ELSE /\ result' = "Ok"
                        /\ <<owner', fee_recipient', chain_id'>> = a
      ]_vars

\* A second initialize was refused on the contract the owner initialized.
C33_Witness ==
    /\ called = "initialize"
    /\ result = "AlreadyInitialized"
    /\ owner = OwnerAddr
    /\ fee_recipient = FeeRcpt
    /\ chain_id = 1500

(***************************************************************************)
(* The Payment contract (SpecPayment).                                     *)
(***************************************************************************)
\* C34: init returns Ok on the contract not yet initialized and stores its
\* destination; on the initialized contract it returns AlreadyInitialized
\* and changes nothing; from the first init on the stored destination never
\* changes, and get_destination returns it.
C34_InitOnce ==
    [][/\ INIT => (INIT' /\ DEST' = DEST)
       /\ called' = "init" =>
             \A destination \in Destinations :
                init(destination)
                => IF INIT
                   THEN /\ result' = "AlreadyInitialized"
                        /\ UNCHANGED <<paymentVars, balance>>
                   ELSE /\ result' = "Ok"
                        /\ INIT'
                        /\ DEST' = destination
       /\ (called' = "get_destination" /\ INIT) => result' = DEST
      ]_vars

\* A second init was refused after tokens had been flushed to the first
\* init's destination, which get_destination still returns.
C34_Witness ==
    /\ called = "init"
    /\ result = "AlreadyInitialized"
    /\ DEST = Bob
    /\ get_destination_result = Bob
    /\ Len(published) >= 1

\* The balances other than the contract's and the destination's of the token.
OthersKeep(token_contract) ==
    \A p \in DOMAIN balance :
       (p # <<token_contract, Self>> /\ p # <<token_contract, DEST>>)
       => balance'[p] = balance[p]

\* C35, as claimed: flush returns NotInitialized before init, whatever the
\* amount, and ZeroAmount for an amount <= 0 after it, moving no tokens; a
\* flush that returns Ok takes `amount` of the token from the contract's
\* balance and adds it to the destination's, and changes no other balance.
C35_FlushReducesBalance ==
    [][called' = "flush" =>
          \A token_contract \in PaymentTokens, amount \in FlushAmounts :
             flush(token_contract, amount)
             => IF ~INIT THEN result' = "NotInitialized" /\ balance' = balance
                ELSE IF amount <= 0 THEN result' = "ZeroAmount" /\ balance' = balance
                ELSE result' = "Ok"
                     => /\ balance'[<<token_contract, Self>>]
                              = balance[<<token_contract, Self>>] - amount
                        /\ balance'[<<token_contract, DEST>>]
                              = balance[<<token_contract, DEST>>] + amount
                        /\ OthersKeep(token_contract)
      ]_vars

RECURSIVE Flushed(_, _)
\* The sum of the amounts of the flush events of a token among `evs`.
Flushed(evs, token_contract) ==
    IF evs = <<>> THEN 0
    ELSE (IF Head(evs).topic = "flush" /\ Head(evs).token = token_contract
          THEN Head(evs).amount ELSE 0)
         + Flushed(Tail(evs), token_contract)

\* While the destination is another address than the contract, the contract
\* holds what it held at deployment less the sum of the amounts flushed.
FlushedOut ==
    DEST # Self =>
       \A token_contract \in PaymentTokens :
          balance[<<token_contract, Self>>]
             = SentByMistake(token_contract) - Flushed(published, token_contract)

\* C35, amended: the refusals as claimed; a flush that returns Ok transfers
\* `amount` of the token from the contract to the stored destination and
\* changes no other balance, which reduces the contract's balance by
\* `amount` when the destination is another address and leaves every
\* balance as it was when the destination is the contract itself; with
\* another address as destination, successive flushes reduce the contract's
\* balance by the sum of their amounts.
C35_FlushPaysDestination ==
    [][/\ called' = "flush" =>
             \A token_contract \in PaymentTokens, amount \in FlushAmounts :
                flush(token_contract, amount)
                => IF ~INIT THEN result' = "NotInitialized" /\ balance' = balance
                   ELSE IF amount <= 0 THEN result' = "ZeroAmount" /\ balance' = balance
                   ELSE result' = "Ok"
                        => /\ OthersKeep(token_contract)
                           /\ IF DEST = Self THEN balance' = balance
                              ELSE /\ balance'[<<token_contract, Self>>]
                                         = balance[<<token_contract, Self>>] - amount
                                   /\ balance'[<<token_contract, DEST>>]
                                         = balance[<<token_contract, DEST>>] + amount
       /\ FlushedOut'
      ]_vars

\* Two flushes have emptied the contract of the token into the destination.
C35_Witness ==
    /\ called = "flush"
    /\ result = "Ok"
    /\ DEST = Bob
    /\ Len(published) = 2
    /\ balance[<<TokenS, Self>>] = 0
    /\ balance[<<TokenS, Bob>>] = 3

(***************************************************************************)
(* Escrow solvency (SpecFee).                                              *)
(***************************************************************************)
RECURSIVE UnsettledOf(_, _)
\* The escrow of the intents of `ids` in `token` that are Pending or Failed.
UnsettledOf(ids, token) ==
    IF ids = {} THEN 0
    ELSE LET i == CHOOSE x \in ids : TRUE
         IN  (IF intents[i].source_token = token
                 /\ intents[i].status \in {"Pending", "Failed"}
              THEN intents[i].source_amount ELSE 0)
                + UnsettledOf(ids \ {i}, token)

\* The contract holds, of every token, the escrow not yet settled and the
\* fees not yet withdrawn, and nothing else.
Solvent ==
    \A token \in Tokens :
       balance[<<token, Self>>]
          = UnsettledOf(DOMAIN intents, token) + accumulated_fees[token]

\* What a refund, an admin refund, a relayer payout or a fee withdrawal would
\* transfer is within the contract's balance.
Covered ==
    /\ \A id \in DOMAIN intents :
          LET intent == intents[id]
              held == balance[<<intent.source_token, Self>>]
          IN  /\ intent.status \in {"Pending", "Failed"} => intent.source_amount <= held
              /\ intent.status = "Pending"
                 => relayer_payout(intent.source_amount, protocol_fee) <= held
    /\ \A token \in Tokens : accumulated_fees[token] <= balance[<<token, Self>>]

\* C36: in every state the contract's balance of each token is the sum of
\* source_amount over its Pending and Failed intents plus the accumulated
\* fees of the token, and the amount a refund, an admin refund, a relayer
\* payout or a fee withdrawal transfers is never more than that balance.
C36_EscrowSolvent == Solvent /\ Covered

(***************************************************************************)
(* One escrow per intent (SpecOverride).                                   *)
(***************************************************************************)
\* What has left the contract on account of an intent: its source_amount
\* once per refund, and once per fill as payout and credited fee.
LeftEscrow(intent_id) ==
    (events[intent_id].refunded + events[intent_id].filled)
       * intents[intent_id].source_amount

\* C37: in every state, the owner's overrides included, the refunds, relayer
\* payouts and credited fees of one intent add up to at most its
\* source_amount.
C37_OneEscrowPerIntent ==
    \A intent_id \in DOMAIN intents :
       LeftEscrow(intent_id) <= intents[intent_id].source_amount

(***************************************************************************)
(* The checks of a fill and the common clock (SpecClock).                  *)
(***************************************************************************)
\* A fill from the IntentData of an intent and a refund of that intent by its
\* sender or refund address are not both accepted in one state.
NoFillWhileRefundable ==
    \A intent_id \in DOMAIN intents, relayer \in RelayerAddrs :
       \A caller \in {intents[intent_id].sender, intents[intent_id].refund_address} :
          ~ /\ refund_result(caller, intent_id) = "Ok"
            /\ fill_and_notify_result(relayer, Snapshot(intents[intent_id]),
                                      Ctr(5).key, 0) = "Ok"

\* What the checks of fill_and_notify answer for a call, in their order.
C38_Answer(relayer, intent_data) ==
    /\ get_relayer_type(relayer) = "None" => result' = "NotRelayer"
    /\ result' = "WrongChain"
          <=> /\ get_relayer_type(relayer) # "None"
              /\ intent_data.destination_chain_id # chain_id
    /\ result' = "IntentExpired"
          <=> /\ get_relayer_type(relayer) # "None"
              /\ intent_data.destination_chain_id = chain_id
              /\ now >= intent_data.deadline
    /\ result' \in {"NotAssignedRelayer", "AlreadyFilled", "Ok"}
          => /\ get_relayer_type(relayer) # "None"
             /\ intent_data.destination_chain_id = chain_id
             /\ now < intent_data.deadline
    /\ result' = "AlreadyFilled"
          => /\ relayer_authorized(relayer, intent_data)
             /\ has_fill_record(compute_fill_hash(intent_data))

\* C38: fill_and_notify answers WrongChain when the destination chain id of
\* the IntentData is not the contract's and IntentExpired when the ledger time
\* has reached its deadline, after NotRelayer and before NotAssignedRelayer
\* and AlreadyFilled; and at no ledger time are a fill of an intent and a
\* refund of it by its sender or refund address both accepted.
C38_FillBeforeDeadline ==
    /\ [](NoFillWhileRefundable)
    /\ [][called' = "fill_and_notify"
            => \A call \in ClockFillCalls :
                  fill_and_notify(call[1], call[2], call[3], call[4])
                     => C38_Answer(call[1], call[2])]_vars

\* An intent was filled before its deadline and refunded at it.
C38_Witness ==
    /\ called = "refund"
    /\ result = "Ok"
    /\ \E intent_id \in DOMAIN intents :
          /\ intents[intent_id].status = "Refunded"
          /\ has_fill_record(compute_fill_hash(Snapshot(intents[intent_id])))
          /\ now >= intents[intent_id].deadline

(***************************************************************************)
(* One fill per IntentData (SpecFill).                                     *)
(***************************************************************************)
\* The IntentData the relayers submit, and those of them with a FillRecord.
FillData == {call[2] : call \in FillCalls}

RecordedData == {d \in FillData : has_fill_record(compute_fill_hash(d))}

\* C39 as claimed: in every state the FillRecords belong to IntentData of
\* pairwise different intent_id, so that at most one fill has succeeded per
\* intent_id whatever the other fields submitted.
C39_OneFillPerIntentId ==
    \A d1, d2 \in RecordedData : d1.intent_id = d2.intent_id => d1 = d2

\* C39 as it holds: at most one fill_and_notify succeeds and at most one
\* FillRecord is created per fill hash, that is per IntentData in all its
\* fields.  A successful fill is of IntentData without a record and records
\* that IntentData alone; a fill is refused as AlreadyFilled only when the very
\* IntentData submitted has a record; each record is that of one IntentData,
\* hence of one intent_id.
C39_OneFillPerIntentData ==
    [][called' = "fill_and_notify"
          => /\ \A call \in FillCalls :
                   fill_and_notify(call[1], call[2], call[3], call[4])
                      => /\ result' = "Ok"
                               => /\ call[2] \notin RecordedData
                                  /\ RecordedData' = RecordedData \cup {call[2]}
                         /\ result' = "AlreadyFilled" => call[2] \in RecordedData
                         /\ result' # "Ok" => RecordedData' = RecordedData
             /\ Cardinality(DOMAIN fill_records') = Cardinality(RecordedData')
      ]_vars

\* Two fills of one intent_id, differing in the destination amount alone, have
\* both succeeded.
C39_Witness ==
    /\ called = "fill_and_notify"
    /\ result = "Ok"
    /\ {OpenData, AlteredAmountData} \subseteq RecordedData
    /\ OpenData.intent_id = AlteredAmountData.intent_id
    /\ balance[<<TokenD, Receiver>>] = 2 * DestinationAmount + 1

(***************************************************************************)
(* The statuses admin_refund accepts (SpecAdminRefund).                    *)
(***************************************************************************)
\* C40: admin_refund of an id that is not stored returns IntentNotFound; of a
\* stored intent it returns InvalidStatus exactly when the intent is Filled or
\* Refunded; in both cases no balance, intent or fee total changes.  On a
\* Failed intent it returns Ok, the intent becomes Refunded and the whole
\* source_amount goes from the contract to the refund address.
C40_AdminRefundStatuses ==
    [][called' = "admin_refund"
          => \A id \in AdminRefundIds :
                admin_refund(OwnerAddr, id)
                   => /\ ~has_intent(id) <=> result' = "IntentNotFound"
                      /\ has_intent(id)
                            => /\ result' = "InvalidStatus"
                                     <=> intents[id].status \in {"Filled", "Refunded"}
                               /\ intents[id].status = "Failed"
                                     => result' = "Ok" /\ RefundedInFull(id)
                      /\ result' \in {"IntentNotFound", "InvalidStatus"}
                            => UNCHANGED <<intents, balance, accumulated_fees, events>>
      ]_vars

\* The owner refunded an intent whose notification had failed, and the refund
\* address holds the source amount.
C40_Witness ==
    /\ called = "admin_refund"
    /\ result = "Ok"
    /\ \E id \in DOMAIN intents :
          /\ intents[id].status = "Refunded"
          /\ events[id].failed # <<>>
          /\ events[id].refunded = 1
          /\ balance[<<TokenS, intents[id].refund_address>>] >= intents[id].source_amount
    /\ balance[<<TokenS, Self>>] = 0

====
